-------------------------- MODULE BuiltinsGenProofs --------------------------
(***************************************************************************)
(* Proofs about the generator of builtins.py (module BuiltinsGen), for     *)
(* every set of DSL functions, type names and bound on add_function calls. *)
(***************************************************************************)
EXTENDS BuiltinsGen, TLAPS

(* process_type_name resolves every template, for every type, to a type    *)
(* string: a base name of Bases and a digit sequence.                      *)
LEMMA ResolvedType ==
  ASSUME NEW T \in Type, NEW tpl \in Template
  PROVE  process_type_name(T, tpl) \in RType
<1>1. VecDim(T) \in Seq(Digit)
  <2>1. T.digits \in Seq(Digit)
    BY DEF Type
  <2>2. CASE T.digits = <<>>
    BY <2>2 DEF VecDim, Digit
  <2>3. CASE T.digits # <<>> /\ Len(T.digits) >= 2
    BY <2>1, <2>3 DEF VecDim
  <2>4. CASE T.digits # <<>> /\ ~(Len(T.digits) >= 2)
    BY <2>1, <2>4 DEF VecDim
  <2>5. QED
    BY <2>2, <2>3, <2>4
<1>2. (IF tpl.dim = VecdimVar THEN VecDim(T) ELSE tpl.dim) \in Seq(Digit)
  BY <1>1 DEF Template
<1>3. QED
  BY <1>2 DEF process_type_name, RType, Template, Type

(* The kind and symbols of each fragment Function.write renders.            *)
LEMMA WriteSyms ==
  ASSUME NEW f, NEW T
  PROVE  /\ \A k \in Kinds : write(f, T, k).kind = k
         /\ write(f, T, "builtins_def").sym = CpuName(f, T)
         /\ write(f, T, "builtins_def").target = mangled_name(f, T)
         /\ write(f, T, "builtins_impl").sym = mangled_name(f, T)
         /\ write(f, T, "stdlib_stub_def").sym = CpuName(f, T)
         /\ write(f, T, "stdlib_stub").call.callee = CpuName(f, T)
  BY DEF write, Kinds, StubCall

(* The return types and parameter lists of the fragments the native       *)
(* contract relates.                                                       *)
LEMMA WriteFields ==
  ASSUME NEW f, NEW T
  PROVE  LET r   == process_type_name(T, f.ret)
             vec == EndsInDigit(r)
         IN  /\ write(f, T, "stdlib_stub").call = StubCall(f, T)
             /\ write(f, T, "stdlib_stub").ret = r
             /\ write(f, T, "stdlib_stub").temp = IF vec THEN r ELSE None
             /\ write(f, T, "stdlib_stub").params = arg_list(f, T, FALSE)
             /\ \A k \in {"builtins_impl", "stdlib_stub_def"} :
                  /\ write(f, T, k).ret = IF vec THEN Void ELSE r
                  /\ write(f, T, k).params = arg_list(f, T, TRUE)
  BY DEF write

(* One DSL argument: the stub passes it (cast and '&' as StubCallArg      *)
(* renders them) in the form the handle_first_arg parameter list of its   *)
(* callee declares, whether it is a vector, a pointer or a scalar.        *)
LEMMA ArgAccepted ==
  ASSUME NEW a \in Arg, NEW T \in Type, NEW stub, NEW k,
         stub.call.args[k] = StubCallArg(a, T),
         StubVar(stub, k) = RenderArg(a, T, FALSE)
  PROVE  Accepts(RenderArg(a, T, TRUE), stub, k)
<1> DEFINE ra  == process_type_name(T, a.t)
           c   == StubCallArg(a, T)
           v   == RenderArg(a, T, FALSE)
           p   == RenderArg(a, T, TRUE)
           lvl == (IF v.ptr THEN 1 ELSE 0) + (IF c.addr THEN 1 ELSE 0)
<1> USE DEF ra, c, v, p, lvl
<1>1. SUFFICES
        /\ c.ref = v.name
        /\ IF c.cast # None
             THEN /\ p.base = c.cast /\ v.base = c.cast
                  /\ p.digits = <<>> /\ p.ptr
                  /\ lvl = 1
             ELSE /\ p.base = v.base /\ p.digits = v.digits
                  /\ lvl = IF p.ptr THEN 1 ELSE 0
  BY DEF Accepts, PtrLevel
<1>2. ra \in RType
  BY ResolvedType DEF Arg
<1>3. c.ref = v.name /\ p.base = v.base /\ p.digits = <<>>
  BY DEF StubCallArg, RenderArg
<1>4. CASE EndsInDigit(ra)
  <2>1. c.cast = ra.base /\ c.cast # None /\ p.base = c.cast /\ v.base = c.cast /\ p.ptr
    BY <1>2, <1>4, BasesAssumption DEF StubCallArg, RenderArg, RType
  <2>2. lvl = 1
    <3>1. CASE ra.ptr
      <4>1. v.ptr /\ ~c.addr
        BY <3>1 DEF StubCallArg, RenderArg
      <4>2. QED
        BY <4>1
    <3>2. CASE ~ra.ptr
      <4>1. ~v.ptr /\ c.addr
        BY <1>4, <3>2 DEF StubCallArg, RenderArg
      <4>2. QED
        BY <4>1
    <3>3. QED
      BY <3>1, <3>2
  <2>3. QED
    BY <1>3, <2>1, <2>2
<1>5. CASE ~EndsInDigit(ra)
  <2>1. c.cast = None /\ ~c.addr /\ v.digits = <<>>
    BY <1>5 DEF StubCallArg, RenderArg, EndsInDigit
  <2>2. CASE ra.ptr
    <3>1. v.ptr /\ p.ptr
      BY <2>2 DEF RenderArg
    <3>2. lvl = 1
      BY <2>1, <3>1
    <3>3. QED
      BY <1>3, <2>1, <3>1, <3>2
  <2>3. CASE ~ra.ptr
    <3>1. ~v.ptr /\ ~p.ptr
      BY <1>5, <2>3 DEF RenderArg
    <3>2. lvl = 0
      BY <2>1, <3>1
    <3>3. QED
      BY <1>3, <2>1, <3>1, <3>2
  <2>4. QED
    BY <2>2, <2>3
<1>6. QED
  BY <1>4, <1>5

(* The vector return: the stub passes &result cast to a pointer to     *)
(* its base, the leading "result" parameter handle_first_arg adds.      *)
LEMMA ResultAccepted ==
  ASSUME NEW r \in RType, NEW T \in Type, NEW stub,
         EndsInDigit(r),
         stub.call.args[1] = [ref |-> "result", cast |-> r.base, addr |-> TRUE],
         StubVar(stub, 1) = [name |-> "result", base |-> r.base,
                             digits |-> r.digits, ptr |-> FALSE]
  PROVE  Accepts(RenderArg([name |-> "result", t |-> AsTemplate(r)], T, TRUE), stub, 1)
<1> DEFINE q == process_type_name(T, AsTemplate(r))
           p == RenderArg([name |-> "result", t |-> AsTemplate(r)], T, TRUE)
<1> USE DEF q, p
<1>1. SUFFICES /\ r.base # None
               /\ p.base = r.base /\ p.digits = <<>> /\ p.ptr
  <2>1. /\ stub.call.args[1].ref = "result" /\ stub.call.args[1].cast = r.base
        /\ stub.call.args[1].addr
        /\ StubVar(stub, 1).name = "result" /\ StubVar(stub, 1).base = r.base
        /\ ~StubVar(stub, 1).ptr
    OBVIOUS
  <2>2. PtrLevel(stub, 1) = 1
    BY <2>1 DEF PtrLevel
  <2>3. QED
    BY <2>1, <2>2 DEF Accepts
<1>2. q.base = r.base /\ q.digits = r.digits
  <2>1. r.base # TypeVar /\ r.digits # VecdimVar /\ r.digits \in Seq(Digit)
    BY BasesAssumption DEF RType
  <2>2. QED
    BY <2>1 DEF process_type_name, AsTemplate
<1>3. r.base # None
  BY BasesAssumption DEF RType
<1>4. EndsInDigit(q)
  BY <1>2 DEF EndsInDigit
<1>5. p.base = q.base /\ p.digits = <<>> /\ p.ptr
  BY <1>4 DEF RenderArg
<1>6. QED
  BY <1>2, <1>3, <1>5

(* For every DSL function and instantiation type, the call the native     *)
(* stub (KIND_STDLIB_STUB) makes matches both its callee's prototype       *)
(* (KIND_STDLIB_STUB_DEF) and the implementation (KIND_BUILTINS_IMPL):    *)
(* the three code paths of Function.write and arg_list agree.             *)
LEMMA NativeCallMatches ==
  ASSUME NEW f \in FunctionSpace, NEW T \in Type,
         NEW kind \in {"builtins_impl", "stdlib_stub_def"}
  PROVE  CallMatches(write(f, T, kind), write(f, T, "stdlib_stub"))
<1> DEFINE rt    == process_type_name(T, f.ret)
           vec   == EndsInDigit(rt)
           decl  == write(f, T, kind)
           stub  == write(f, T, "stdlib_stub")
           na    == Len(f.args)
           sargs == [i \in 1 .. na |-> StubCallArg(f.args[i], T)]
           res   == [name |-> "result", t |-> AsTemplate(rt)]
<1> USE DEF rt, vec, decl, stub, na, sargs, res
<1>1. rt \in RType /\ rt # None
  BY ResolvedType, BasesAssumption DEF FunctionSpace, RType
<1>2. f.args \in Seq(Arg)
  BY DEF FunctionSpace
<1>3. /\ decl.ret = IF vec THEN Void ELSE rt
      /\ decl.params = arg_list(f, T, TRUE)
      /\ stub.ret = rt
      /\ stub.temp = IF vec THEN rt ELSE None
      /\ stub.params = arg_list(f, T, FALSE)
      /\ stub.call = StubCall(f, T)
  BY WriteFields
<1>4. stub.params = [i \in 1 .. na |-> RenderArg(f.args[i], T, FALSE)]
  BY <1>2, <1>3 DEF arg_list
<1>5. CASE vec
  <2>1. stub.call.args = <<[ref |-> "result", cast |-> rt.base, addr |-> TRUE]>> \o sargs
    <3>1. StubCall(f, T).args = <<[ref |-> "result", cast |-> rt.base, addr |-> TRUE]>> \o sargs
      BY <1>5 DEF StubCall
    <3>2. QED
      BY <1>3, <3>1
  <2>2. decl.params = [i \in 1 .. na + 1 |-> RenderArg((<<res>> \o f.args)[i], T, TRUE)]
    <3>1. arg_list(f, T, TRUE) = [i \in 1 .. na + 1 |-> RenderArg((<<res>> \o f.args)[i], T, TRUE)]
      <4>1. ResultArg(f, T) = <<res>>
        BY <1>5 DEF ResultArg
      <4>2. Len(<<res>> \o f.args) = na + 1
        BY <1>2
      <4>3. QED
        BY <4>1, <4>2 DEF arg_list
    <3>2. QED
      BY <1>3, <3>1
  <2>3. Len(stub.call.args) = na + 1 /\ Len(decl.params) = na + 1
    BY <1>2, <2>1, <2>2
  <2>4. stub.temp # None /\ stub.temp = stub.ret /\ decl.ret = Void
    BY <1>1, <1>3, <1>5
  <2>5. Accepts(decl.params[1], stub, 1)
    <3>1. decl.params[1] = RenderArg(res, T, TRUE)
      <4>1. (<<res>> \o f.args)[1] = res /\ 1 \in 1 .. na + 1
        BY <1>2
      <4>2. QED
        BY <2>2, <4>1
    <3>2. stub.call.args[1] = [ref |-> "result", cast |-> rt.base, addr |-> TRUE]
      <4>1. (<<[ref |-> "result", cast |-> rt.base, addr |-> TRUE]>> \o sargs)[1]
              = [ref |-> "result", cast |-> rt.base, addr |-> TRUE]
        BY <1>2
      <4>2. QED
        BY <2>1, <4>1
    <3>3. StubVar(stub, 1) = [name |-> "result", base |-> rt.base,
                              digits |-> rt.digits, ptr |-> FALSE]
      BY <1>3, <1>5, <2>4 DEF StubVar
    <3>4. QED
      BY <1>1, <1>5, <3>1, <3>2, <3>3, ResultAccepted
  <2>6. ASSUME NEW k \in 2 .. na + 1 PROVE Accepts(decl.params[k], stub, k)
    <3>1. f.args[k - 1] \in Arg
      BY <1>2
    <3>2. decl.params[k] = RenderArg(f.args[k - 1], T, TRUE)
      <4>1. (<<res>> \o f.args)[k] = f.args[k - 1] /\ k \in 1 .. na + 1
        BY <1>2
      <4>2. QED
        BY <2>2, <4>1
    <3>3. stub.call.args[k] = StubCallArg(f.args[k - 1], T)
      <4>1. (<<[ref |-> "result", cast |-> rt.base, addr |-> TRUE]>> \o sargs)[k] = sargs[k - 1]
        BY <1>2
      <4>2. sargs[k - 1] = StubCallArg(f.args[k - 1], T)
        BY <1>2
      <4>3. QED
        BY <2>1, <4>1, <4>2
    <3>4. StubVar(stub, k) = RenderArg(f.args[k - 1], T, FALSE)
      <4>1. k # 1 /\ k - 1 \in 1 .. na
        BY <1>2
      <4>2. StubVar(stub, k) = stub.params[k - 1]
        BY <2>4, <4>1 DEF StubVar
      <4>3. QED
        BY <1>4, <4>1, <4>2
    <3>5. QED
      BY <3>1, <3>2, <3>3, <3>4, ArgAccepted
  <2>7. QED
    BY <2>3, <2>4, <2>5, <2>6 DEF CallMatches
<1>6. CASE ~vec
  <2>1. stub.call.args = sargs
    <3>1. StubCall(f, T).args = sargs
      BY <1>6 DEF StubCall
    <3>2. QED
      BY <1>3, <3>1
  <2>2. decl.params = [i \in 1 .. na |-> RenderArg(f.args[i], T, TRUE)]
    <3>1. arg_list(f, T, TRUE) = [i \in 1 .. na |-> RenderArg(f.args[i], T, TRUE)]
      <4>1. ResultArg(f, T) = <<>>
        BY <1>6 DEF ResultArg
      <4>2. <<>> \o f.args = f.args
        BY <1>2
      <4>3. QED
        BY <4>1, <4>2 DEF arg_list
    <3>2. QED
      BY <1>3, <3>1
  <2>3. stub.temp = None /\ decl.ret = stub.ret
    BY <1>3, <1>6
  <2>4. ASSUME NEW k \in 1 .. na PROVE Accepts(decl.params[k], stub, k)
    <3>1. f.args[k] \in Arg
      BY <1>2
    <3>2. StubVar(stub, k) = RenderArg(f.args[k], T, FALSE)
      BY <1>4, <2>3 DEF StubVar
    <3>3. QED
      BY <2>1, <2>2, <3>1, <3>2, ArgAccepted
  <2>5. Len(stub.call.args) = na /\ Len(decl.params) = na
    BY <1>2, <2>1, <2>2
  <2>6. QED
    BY <2>3, <2>4, <2>5 DEF CallMatches
<1>7. QED
  BY <1>5, <1>6

-----------------------------------------------------------------------------
(***************************************************************************)
(* Type correctness of the generator.                                      *)
(***************************************************************************)

(* The fragments add_function appends for a function of Functions are     *)
(* sequences of Entries.                                                   *)
LEMMA PerTypeEntries ==
  ASSUME NEW f \in Functions, NEW k1 \in Kinds, NEW k2 \in Kinds
  PROVE  /\ PerType(f, k1) \in Seq(Entries)
         /\ PerTypePair(f, k1, k2) \in Seq(Entries)
<1>1. f.types \in Seq(Type)
  BY FunctionsAssumption DEF FunctionSpace
<1>2. \A i \in 1 .. Len(f.types) : \A k \in Kinds : write(f, f.types[i], k) \in Entries
  BY <1>1 DEF Entries, TypesOf
<1>3. PerType(f, k1) \in Seq(Entries)
  BY <1>1, <1>2 DEF PerType
<1>4. PerTypePair(f, k1, k2) \in Seq(Entries)
  <2>1. \A i \in 1 .. 2 * Len(f.types) :
          /\ (i + 1) \div 2 \in 1 .. Len(f.types)
          /\ i % 2 # 1 => i \div 2 \in 1 .. Len(f.types)
    BY <1>1
  <2>2. QED
    BY <1>1, <1>2, <2>1 DEF PerTypePair
<1>5. QED
  BY <1>3, <1>4

(* Generator.write writes each file from its buffer.                       *)
LEMMA BufferOfEntries ==
  ASSUME GenTypeOK, NEW i \in 1 .. 4
  PROVE  BufferOf(i) \in Seq(Entries)
  BY DEF GenTypeOK, BufferOf

(* Every step of the generator keeps every buffer and written file a list *)
(* of rendered fragments, and adds within its bound.                       *)
LEMMA GenTypeStep ==
  ASSUME GenTypeOK, [GenNext]_gvars
  PROVE  GenTypeOK'
<1>1. CASE \E f \in Functions : add_function(f)
  <2>1. PICK f \in Functions : add_function(f)
    BY <1>1
  <2>2. f \in FunctionSpace
    BY FunctionsAssumption
  <2>3. /\ PerType(f, "stdlib_def") \in Seq(Entries)
        /\ PerType(f, "stdlib_impl") \in Seq(Entries)
        /\ PerType(f, "builtins_impl") \in Seq(Entries)
        /\ PerType(f, "builtins_def") \in Seq(Entries)
        /\ PerTypePair(f, "stdlib_stub_def", "stdlib_stub") \in Seq(Entries)
    BY PerTypeEntries DEF Kinds
  <2>4. adds' = adds + 1 /\ adds < MaxAdds /\ UNCHANGED <<files, phase>>
    BY <2>1 DEF add_function
  <2>5. CASE f.native
    <3>1. /\ stdlib_impl_buffer' =
               stdlib_impl_buffer \o PerTypePair(f, "stdlib_stub_def", "stdlib_stub")
          /\ stdlib_def_buffer' = stdlib_def_buffer \o PerType(f, "stdlib_def")
          /\ builtins_impl_buffer' = builtins_impl_buffer \o PerType(f, "builtins_impl")
          /\ builtins_def_buffer' = builtins_def_buffer \o PerType(f, "builtins_def")
      BY <2>1, <2>5, Zenon DEF add_function
    <3>2. QED
      BY <2>3, <2>4, <3>1, GenAssumption DEF GenTypeOK
  <2>6. CASE ~f.native
    <3>1. /\ stdlib_def_buffer' = stdlib_def_buffer \o PerType(f, "stdlib_def")
          /\ stdlib_impl_buffer' = stdlib_impl_buffer \o PerType(f, "stdlib_impl")
          /\ UNCHANGED <<builtins_impl_buffer, builtins_def_buffer>>
      BY <2>1, <2>6, Zenon DEF add_function
    <3>2. QED
      BY <2>3, <2>4, <3>1, GenAssumption DEF GenTypeOK
  <2>7. QED
    BY <2>5, <2>6
<1>2. CASE ParseDone \/ ParseFails
  BY <1>2 DEF ParseDone, ParseFails, GenTypeOK
<1>3. CASE gen_write
  <2>1. \A i \in 1 .. 4 : BufferOf(i) \in Seq(Entries)
    BY BufferOfEntries
  <2>2. QED
    BY <1>3, <2>1 DEF gen_write, GenTypeOK
<1>4. CASE UNCHANGED gvars
  BY <1>4 DEF gvars, GenTypeOK
<1>5. QED
  BY <1>1, <1>2, <1>3, <1>4 DEF GenNext

(* Type correctness: along every run of the generator, its buffers and    *)
(* the files Generator.write produces hold only fragments Function.write  *)
(* renders, and add_function is called at most MaxAdds times.             *)
THEOREM GenTypeCorrect == GenSpec => []GenTypeOK
<1>1. GenInit => GenTypeOK
  BY GenAssumption DEF GenInit, GenTypeOK
<1>2. GenTypeOK /\ [GenNext]_gvars => GenTypeOK'
  BY GenTypeStep
<1>3. QED
  BY <1>1, <1>2, PTL DEF GenSpec

-----------------------------------------------------------------------------
(***************************************************************************)
(* The native calling contract.                                            *)
(***************************************************************************)

(* The i-th entry of stdlib_impl.h, if a stub, is backed: NativeTiersConsistent *)
(* for one index, over buffers I (stdlib_impl), D (builtins_def) and B      *)
(* (builtins_impl).                                                         *)
Backed(i, I, D, B) ==
  I[i].kind = "stdlib_stub" =>
    /\ \E j \in 1 .. i - 1 :
         /\ I[j].kind = "stdlib_stub_def"
         /\ I[j].sym = I[i].call.callee
         /\ CallMatches(I[j], I[i])
    /\ \E k \in 1 .. Len(D) :
         /\ D[k].sym = I[i].call.callee
         /\ \E m \in 1 .. Len(B) :
              /\ B[m].sym = D[k].target
              /\ CallMatches(B[m], I[i])

LEMMA BackedDef ==
  NativeTiersConsistent <=>
    \A i \in 1 .. Len(stdlib_impl_buffer) :
      Backed(i, stdlib_impl_buffer, builtins_def_buffer, builtins_impl_buffer)
  BY DEF NativeTiersConsistent, Backed

(* Appending to the three buffers keeps an entry backed: its witnesses    *)
(* keep their indices.                                                     *)
LEMMA BackedExtend ==
  ASSUME NEW I \in Seq(Entries), NEW D \in Seq(Entries), NEW B \in Seq(Entries),
         NEW X \in Seq(Entries), NEW Y \in Seq(Entries), NEW Z \in Seq(Entries),
         NEW i \in 1 .. Len(I), Backed(i, I, D, B)
  PROVE  Backed(i, I \o X, D \o Y, B \o Z)
<1>1. (I \o X)[i] = I[i]
  OBVIOUS
<1>2. \A j \in 1 .. i - 1 : (I \o X)[j] = I[j]
  OBVIOUS
<1>3. \A k \in 1 .. Len(D) : k \in 1 .. Len(D \o Y) /\ (D \o Y)[k] = D[k]
  OBVIOUS
<1>4. \A m \in 1 .. Len(B) : m \in 1 .. Len(B \o Z) /\ (B \o Z)[m] = B[m]
  OBVIOUS
<1>5. QED
  BY <1>1, <1>2, <1>3, <1>4 DEF Backed

(* The stubs add_function appends for a native function are backed: each *)
(* stub's prototype is the entry just before it, and its registry entry   *)
(* and implementation are appended at the same position of their buffers. *)
LEMMA NewStubBacked ==
  ASSUME NEW f \in Functions,
         NEW I \in Seq(Entries), NEW D \in Seq(Entries), NEW B \in Seq(Entries),
         NEW i \in Len(I) + 1 .. Len(I) + 2 * Len(f.types)
  PROVE  Backed(i, I \o PerTypePair(f, "stdlib_stub_def", "stdlib_stub"),
                   D \o PerType(f, "builtins_def"),
                   B \o PerType(f, "builtins_impl"))
<1> DEFINE P  == PerTypePair(f, "stdlib_stub_def", "stdlib_stub")
           PD == PerType(f, "builtins_def")
           PB == PerType(f, "builtins_impl")
           q  == i - Len(I)
<1> USE DEF P, PD, PB, q
<1>1. f \in FunctionSpace /\ f.types \in Seq(Type)
  BY FunctionsAssumption DEF FunctionSpace
<1>2. q \in 1 .. 2 * Len(f.types) /\ (I \o P)[i] = P[q]
  BY <1>1 DEF PerTypePair
<1>3. CASE q % 2 = 1
  <2>1. P[q] = write(f, f.types[(q + 1) \div 2], "stdlib_stub_def")
    BY <1>2, <1>3 DEF PerTypePair
  <2>2. P[q].kind = "stdlib_stub_def"
    BY <2>1, WriteSyms DEF Kinds
  <2>3. QED
    BY <1>2, <2>2 DEF Backed
<1>4. CASE q % 2 # 1
  <2> DEFINE t  == q \div 2
             T  == f.types[t]
             s  == write(f, T, "stdlib_stub")
  <2> USE DEF t, T, s
  <2>1. /\ t \in 1 .. Len(f.types) /\ q - 1 \in 1 .. 2 * Len(f.types)
        /\ (q - 1) % 2 = 1 /\ ((q - 1) + 1) \div 2 = t /\ i - 1 \in 1 .. i - 1
    <3>1. Len(f.types) \in Nat /\ q \in 1 .. 2 * Len(f.types) /\ q % 2 # 1
      BY <1>1, <1>2, <1>4
    <3>2. Len(I) \in Nat /\ i = Len(I) + q
      OBVIOUS
    <3>3. QED
      BY <3>1, <3>2, SMTT(30)
  <2>2. T \in Type
    BY <1>1, <2>1
  <2>3. (I \o P)[i] = s
    BY <1>2, <1>4 DEF PerTypePair
  <2>4. (I \o P)[i - 1] = write(f, T, "stdlib_stub_def")
    <3>1. (I \o P)[i - 1] = P[q - 1]
      BY <1>1, <2>1 DEF PerTypePair
    <3>2. QED
      BY <2>1, <3>1 DEF PerTypePair
  <2>5. /\ Len(D) + t \in 1 .. Len(D \o PD)
        /\ (D \o PD)[Len(D) + t] = write(f, T, "builtins_def")
        /\ Len(B) + t \in 1 .. Len(B \o PB)
        /\ (B \o PB)[Len(B) + t] = write(f, T, "builtins_impl")
    <3>1. /\ PD \in Seq(Entries) /\ PB \in Seq(Entries)
      BY PerTypeEntries DEF Kinds
    <3>2. Len(PD) = Len(f.types) /\ Len(PB) = Len(f.types)
      BY <1>1 DEF PerType
    <3>3. PD[t] = write(f, T, "builtins_def") /\ PB[t] = write(f, T, "builtins_impl")
      BY <2>1 DEF PerType
    <3>4. /\ Len(D) + t \in 1 .. Len(D \o PD) /\ (D \o PD)[Len(D) + t] = PD[t]
          /\ Len(B) + t \in 1 .. Len(B \o PB) /\ (B \o PB)[Len(B) + t] = PB[t]
      BY <2>1, <3>1, <3>2
    <3>5. QED
      BY <3>3, <3>4
  <2>6. /\ s.call.callee = CpuName(f, T)
        /\ write(f, T, "stdlib_stub_def").kind = "stdlib_stub_def"
        /\ write(f, T, "stdlib_stub_def").sym = CpuName(f, T)
        /\ write(f, T, "builtins_def").sym = CpuName(f, T)
        /\ write(f, T, "builtins_def").target = mangled_name(f, T)
        /\ write(f, T, "builtins_impl").sym = mangled_name(f, T)
    BY WriteSyms DEF Kinds
  <2>7. /\ CallMatches(write(f, T, "stdlib_stub_def"), s)
        /\ CallMatches(write(f, T, "builtins_impl"), s)
    BY <1>1, <2>2, NativeCallMatches
  <2>8. QED
    <3>1. \E j \in 1 .. i - 1 :
            /\ (I \o P)[j].kind = "stdlib_stub_def"
            /\ (I \o P)[j].sym = (I \o P)[i].call.callee
            /\ CallMatches((I \o P)[j], (I \o P)[i])
      BY <2>1, <2>3, <2>4, <2>6, <2>7
    <3>2. \E k \in 1 .. Len(D \o PD) :
            /\ (D \o PD)[k].sym = (I \o P)[i].call.callee
            /\ \E m \in 1 .. Len(B \o PB) :
                 /\ (B \o PB)[m].sym = (D \o PD)[k].target
                 /\ CallMatches((B \o PB)[m], (I \o P)[i])
      BY <2>3, <2>5, <2>6, <2>7
    <3>3. QED
      BY <3>1, <3>2 DEF Backed
<1>5. QED
  BY <1>3, <1>4

(* Every step of the generator keeps every stub of stdlib_impl.h backed.   *)
LEMMA NativeStep ==
  ASSUME GenTypeOK, NativeTiersConsistent, [GenNext]_gvars
  PROVE  NativeTiersConsistent'
<1> DEFINE I == stdlib_impl_buffer
           D == builtins_def_buffer
           B == builtins_impl_buffer
<1> USE DEF I, D, B
<1>1. I \in Seq(Entries) /\ D \in Seq(Entries) /\ B \in Seq(Entries)
      /\ \A i \in 1 .. Len(I) : Backed(i, I, D, B)
  BY BackedDef DEF GenTypeOK
<1>2. SUFFICES ASSUME NEW i \in 1 .. Len(I') PROVE Backed(i, I', D', B')
  BY DEF NativeTiersConsistent, Backed
<1>3. CASE \E f \in Functions : add_function(f)
  <2>1. PICK f \in Functions : add_function(f)
    BY <1>3
  <2>2. f.types \in Seq(Type)
    BY FunctionsAssumption DEF FunctionSpace
  <2>3. CASE f.native
    <3> DEFINE P == PerTypePair(f, "stdlib_stub_def", "stdlib_stub")
               PD == PerType(f, "builtins_def")
               PB == PerType(f, "builtins_impl")
    <3>1. I' = I \o P /\ D' = D \o PD /\ B' = B \o PB
      BY <2>1, <2>3, Zenon DEF add_function
    <3>2. P \in Seq(Entries) /\ PD \in Seq(Entries) /\ PB \in Seq(Entries)
      BY PerTypeEntries DEF Kinds
    <3>3. Len(P) = 2 * Len(f.types)
      BY <2>2 DEF PerTypePair
    <3>4. CASE i \in 1 .. Len(I)
      BY <1>1, <3>1, <3>2, <3>4, BackedExtend
    <3>5. CASE i \in Len(I) + 1 .. Len(I) + 2 * Len(f.types)
      BY <1>1, <3>1, <3>5, NewStubBacked
    <3>6. QED
      BY <1>1, <3>1, <3>2, <3>3, <3>4, <3>5
  <2>4. CASE ~f.native
    <3> DEFINE PI == PerType(f, "stdlib_impl")
    <3>1. I' = I \o PI /\ D' = D /\ B' = B
      BY <2>1, <2>4, Zenon DEF add_function
    <3>2. PI \in Seq(Entries) /\ Len(PI) = Len(f.types)
      <4>1. PI \in Seq(Entries)
        BY PerTypeEntries DEF Kinds
      <4>2. Len(PI) = Len(f.types)
        BY <2>2 DEF PerType
      <4>3. QED
        BY <4>1, <4>2
    <3>3. CASE i \in 1 .. Len(I)
      <4>1. D \o <<>> = D /\ B \o <<>> = B /\ <<>> \in Seq(Entries)
        BY <1>1
      <4>2. Backed(i, I \o PI, D \o <<>>, B \o <<>>)
        BY <1>1, <3>2, <3>3, <4>1, BackedExtend
      <4>3. QED
        BY <3>1, <4>1, <4>2
    <3>4. CASE i \in Len(I) + 1 .. Len(I) + Len(f.types)
      <4>1. I'[i] = write(f, f.types[i - Len(I)], "stdlib_impl")
        BY <1>1, <2>2, <3>1, <3>4 DEF PerType
      <4>2. I'[i].kind = "stdlib_impl"
        BY <4>1, WriteSyms DEF Kinds
      <4>3. QED
        BY <4>2 DEF Backed
    <3>5. QED
      BY <1>1, <3>1, <3>2, <3>3, <3>4
  <2>5. QED
    BY <2>3, <2>4
<1>4. CASE ParseDone \/ ParseFails \/ gen_write \/ UNCHANGED gvars
  <2>1. I' = I /\ D' = D /\ B' = B
    BY <1>4 DEF ParseDone, ParseFails, gen_write, gvars
  <2>2. QED
    BY <1>1, <2>1
<1>5. QED
  BY <1>3, <1>4 DEF GenNext

(* The native calling contract holds along every run of the generator,   *)
(* whatever DSL functions it is given: every native stub written to       *)
(* stdlib_impl.h calls a __cpu_ symbol prototyped before it with the      *)
(* signature its call needs, registered in builtins_def.h, and bound      *)
(* there to an implementation in builtins_impl.h with that signature.     *)
THEOREM NativeContract == GenSpec => []NativeTiersConsistent
<1>1. GenInit => GenTypeOK /\ NativeTiersConsistent
  BY GenAssumption DEF GenInit, GenTypeOK, NativeTiersConsistent
<1>2. GenTypeOK /\ NativeTiersConsistent /\ [GenNext]_gvars
        => (GenTypeOK /\ NativeTiersConsistent)'
  BY GenTypeStep, NativeStep
<1>3. QED
  BY <1>1, <1>2, PTL DEF GenSpec

-----------------------------------------------------------------------------
(***************************************************************************)
(* $vecdim (process_type_name, builtins.py:85-96).                         *)
(***************************************************************************)

(* The value of one decimal digit, as DecimalValue reads it.               *)
DigitVal(c) ==
  CHOOSE n \in 0 .. 9 : <<"0", "1", "2", "3", "4", "5", "6", "7", "8", "9">>[n + 1] = c

(* The instantiation types of the DSL have vector suffixes of at most two *)
(* digits: the OpenCL widths 2, 3, 4, 8 and 16.  process_type_name keeps  *)
(* only the last two characters of a type, so it relies on this.           *)
TypesWithinTwoDigits ==
  \A g \in Functions : \A T \in TypesOf(g) : Len(T.digits) <= 2

LEMMA DigitOne == DigitVal("1") = 1
BY DEF DigitVal

(* The string "1" that $vecdim becomes for a scalar denotes 1.            *)
LEMMA DecimalOne ==
  ASSUME NEW ds, ds = <<"1">>
  PROVE  DecimalValue(ds) = 1
<1>1. Len(ds) = 1 /\ ds[1] = "1" /\ 0 .. Len(ds) = 0 .. 1
  OBVIOUS
<1>2. DigitVal(ds[1]) = 1
  BY <1>1, DigitOne
<1>3. \E v : v = [i \in 0 .. Len(ds) |->
                   IF i = 0 THEN 0 ELSE 10 * v[i - 1] + DigitVal(ds[i])]
  <2>. WITNESS [i \in 0 .. 1 |-> IF i = 0 THEN 0 ELSE 1]
  <2>. QED
    BY <1>1, <1>2
<1>4. ASSUME NEW v,
             v = [i \in 0 .. Len(ds) |->
                   IF i = 0 THEN 0 ELSE 10 * v[i - 1] + DigitVal(ds[i])]
      PROVE  v[Len(ds)] = 1
  <2>1. v[0] = 0 /\ v[1] = 10 * v[0] + DigitVal(ds[1])
    BY <1>1, <1>4
  <2>. QED
    BY <1>1, <1>2, <2>1
<1>. QED
  BY <1>3, <1>4, Zenon DEF DecimalValue, DigitVal

(* For a type of at most two digits, $vecdim is its whole suffix, or "1".  *)
LEMMA VecDimShort ==
  ASSUME NEW T \in Type, Len(T.digits) <= 2
  PROVE  VecDim(T) = IF T.digits = <<>> THEN <<"1">> ELSE T.digits
<1>1. T.digits \in Seq(Digit)
  BY DEF Type
<1>2. CASE Len(T.digits) = 2
  <2>1. T.digits # <<>> /\ Len(T.digits) >= 2
    BY <1>1, <1>2
  <2>2. SubSeq(T.digits, Len(T.digits) - 1, Len(T.digits)) = T.digits
    BY <1>1, <1>2
  <2>. QED
    BY <2>1, <2>2 DEF VecDim
<1>3. CASE Len(T.digits) = 1
  <2>1. T.digits # <<>> /\ ~(Len(T.digits) >= 2)
    BY <1>1, <1>3
  <2>. QED
    BY <2>1 DEF VecDim
<1>4. CASE Len(T.digits) = 0
  <2>1. T.digits = <<>>
    BY <1>1, <1>4
  <2>. QED
    BY <2>1 DEF VecDim
<1>5. Len(T.digits) \in {0, 1, 2}
  <2>1. Len(T.digits) \in Nat
    BY <1>1
  <2>2. \A n \in Nat : n <= 2 => n \in {0, 1, 2}
    OBVIOUS
  <2>. QED
    BY <2>1, <2>2
<1>. QED
  BY <1>2, <1>3, <1>4, <1>5

(* A body is copied only into the builtins_impl and stdlib_impl fragments, *)
(* with $type and $vecdim resolved for the type it is written for.        *)
LEMMA WriteBody ==
  ASSUME NEW f, NEW T, NEW k \in Kinds, "body" \in DOMAIN write(f, T, k)
  PROVE  write(f, T, k).body = BodyOf(f, T)
<1>1. CASE k \in {"builtins_impl", "stdlib_impl"}
  BY <1>1 DEF write
<1>2. CASE k \in {"builtins_def", "stdlib_stub_def", "stdlib_def", "stdlib_stub"}
  <2>1. "body" \notin DOMAIN write(f, T, k)
    BY <1>2 DEF write
  <2>. QED
    BY <2>1
<1>. QED
  BY <1>1, <1>2 DEF Kinds

(* Every rendered fragment with a body resolves $vecdim to the width of   *)
(* its type, when types have at most two digits.                           *)
LEMMA EntryVecdim ==
  ASSUME TypesWithinTwoDigits, NEW e \in Entries, "body" \in DOMAIN e
  PROVE  DecimalValue(e.body.vecdim) =
           IF e.body.type.digits = <<>> THEN 1 ELSE DecimalValue(e.body.type.digits)
<1>1. PICK f \in Functions, g \in Functions, k \in Kinds :
        \E T \in TypesOf(g) : e = write(f, T, k)
  BY DEF Entries
<1>2. PICK T \in TypesOf(g) : e = write(f, T, k)
  BY <1>1
<1>3. T \in Type /\ Len(T.digits) <= 2
  <2>1. g.types \in Seq(Type)
    BY FunctionsAssumption DEF FunctionSpace
  <2>. QED
    BY <2>1 DEF TypesWithinTwoDigits, TypesOf
<1>4. e.body = BodyOf(f, T)
  BY <1>2, WriteBody
<1>5. e.body.vecdim = VecDim(T) /\ e.body.type = T
  BY <1>4 DEF BodyOf
<1>6. CASE T.digits = <<>>
  BY <1>3, <1>5, <1>6, VecDimShort, DecimalOne
<1>7. CASE T.digits # <<>>
  BY <1>3, <1>5, <1>7, VecDimShort
<1>. QED
  BY <1>6, <1>7

(* spec 4.2 on $vecdim holds for every DSL whose types have suffixes of   *)
(* at most two digits (every OpenCL type): every body written to          *)
(* builtins_impl.h or stdlib_impl.h, along every run of the generator,    *)
(* has $vecdim replaced by the decimal vector width of its type, and by 1 *)
(* for a scalar.  A three-digit suffix would break it (VecDim keeps two). *)
THEOREM VecdimContract == TypesWithinTwoDigits => (GenSpec => []SpecVecdim)
<1>1. TypesWithinTwoDigits /\ GenTypeOK => SpecVecdim
  <2>. SUFFICES ASSUME TypesWithinTwoDigits, GenTypeOK,
                       NEW e \in {builtins_impl_buffer[i] : i \in 1 .. Len(builtins_impl_buffer)}
                                 \cup {stdlib_impl_buffer[i] : i \in 1 .. Len(stdlib_impl_buffer)},
                       "body" \in DOMAIN e
                PROVE  DecimalValue(e.body.vecdim) =
                         IF e.body.type.digits = <<>> THEN 1
                         ELSE DecimalValue(e.body.type.digits)
    BY DEF SpecVecdim
  <2>1. e \in Entries
    BY DEF GenTypeOK
  <2>. QED
    BY <2>1, EntryVecdim
<1>2. ASSUME TypesWithinTwoDigits PROVE GenSpec => []SpecVecdim
  BY <1>1, <1>2, GenTypeCorrect, PTL
<1>. QED
  BY <1>2


-----------------------------------------------------------------------------
(***************************************************************************)
(* What reaches the disk (Generator.add_function and Generator.write).     *)
(***************************************************************************)

(* Every fragment of s is of a kind in K.                                  *)
AllKinds(s, K) == \A j \in 1 .. Len(s) : s[j].kind \in K

(* Each buffer holds only the kinds of the file it is written to, and so  *)
(* does each file written.                                                 *)
KindsInv ==
  /\ AllKinds(stdlib_def_buffer, FileKinds("stdlib_def.h"))
  /\ AllKinds(stdlib_impl_buffer, FileKinds("stdlib_impl.h"))
  /\ AllKinds(builtins_def_buffer, FileKinds("builtins_def.h"))
  /\ AllKinds(builtins_impl_buffer, FileKinds("builtins_impl.h"))
  /\ FilesHoldTheirKinds

LEMMA FileKindsValues ==
  /\ FileKinds("stdlib_def.h") = {"stdlib_def"}
  /\ FileKinds("stdlib_impl.h") = {"stdlib_impl", "stdlib_stub_def", "stdlib_stub"}
  /\ FileKinds("builtins_def.h") = {"builtins_def"}
  /\ FileKinds("builtins_impl.h") = {"builtins_impl"}
BY DEF FileKinds

LEMMA FilesKindsDef ==
  FilesHoldTheirKinds <=>
    \A i \in 1 .. 4 : files[i] # Stale => AllKinds(files[i], FileKinds(OutFiles[i]))
BY DEF FilesHoldTheirKinds, AllKinds

(* Appending fragments of the right kinds keeps a buffer right.            *)
LEMMA AllKindsConcat ==
  ASSUME NEW S, NEW K, NEW s \in Seq(S), NEW t \in Seq(S),
         AllKinds(s, K), AllKinds(t, K)
  PROVE  AllKinds(s \o t, K)
<1>1. SUFFICES ASSUME NEW j \in 1 .. Len(s \o t) PROVE (s \o t)[j].kind \in K
  BY DEF AllKinds
<1>2. CASE j <= Len(s)
  BY <1>2 DEF AllKinds
<1>3. CASE j > Len(s)
  <2>1. j - Len(s) \in 1 .. Len(t) /\ (s \o t)[j] = t[j - Len(s)]
    BY <1>3
  <2>. QED
    BY <2>1 DEF AllKinds
<1>. QED
  BY <1>2, <1>3

(* add_function appends fragments of the kinds it asks write() for.        *)
LEMMA PerTypeKinds ==
  ASSUME NEW f \in Functions, NEW k1 \in Kinds, NEW k2 \in Kinds, NEW K,
         k1 \in K, k2 \in K
  PROVE  AllKinds(PerType(f, k1), K) /\ AllKinds(PerTypePair(f, k1, k2), K)
<1>1. f.types \in Seq(Type)
  BY FunctionsAssumption DEF FunctionSpace
<1>2. \A T : write(f, T, k1).kind = k1 /\ write(f, T, k2).kind = k2
  BY WriteSyms
<1>3. AllKinds(PerType(f, k1), K)
  BY <1>1, <1>2 DEF PerType, AllKinds
<1>4. AllKinds(PerTypePair(f, k1, k2), K)
  BY <1>1, <1>2 DEF PerTypePair, AllKinds
<1>. QED
  BY <1>3, <1>4

(* The buffer write() sends to each file holds that file's kinds.          *)
LEMMA BufferOfKinds ==
  ASSUME KindsInv, NEW i \in 1 .. 4
  PROVE  AllKinds(BufferOf(i), FileKinds(OutFiles[i]))
<1>1. i = 1 \/ i = 2 \/ i = 3 \/ i = 4
  OBVIOUS
<1>. QED
  BY <1>1 DEF KindsInv, BufferOf, OutFiles

(* Every step of the generator keeps buffers and files of the right kinds. *)
LEMMA KindsStep ==
  ASSUME GenTypeOK, KindsInv, [GenNext]_gvars
  PROVE  KindsInv'
<1>1. CASE \E f \in Functions : add_function(f)
  <2>1. PICK f \in Functions : add_function(f)
    BY <1>1
  <2>2. UNCHANGED files
    BY <2>1 DEF add_function
  <2>3. FilesHoldTheirKinds'
    BY <2>2 DEF KindsInv, FilesHoldTheirKinds
  <2>4. /\ AllKinds(PerType(f, "stdlib_def"), FileKinds("stdlib_def.h"))
        /\ AllKinds(PerType(f, "stdlib_impl"), FileKinds("stdlib_impl.h"))
        /\ AllKinds(PerTypePair(f, "stdlib_stub_def", "stdlib_stub"), FileKinds("stdlib_impl.h"))
        /\ AllKinds(PerType(f, "builtins_def"), FileKinds("builtins_def.h"))
        /\ AllKinds(PerType(f, "builtins_impl"), FileKinds("builtins_impl.h"))
    BY FileKindsValues, PerTypeKinds DEF Kinds
  <2>5. /\ PerType(f, "stdlib_def") \in Seq(Entries)
        /\ PerType(f, "stdlib_impl") \in Seq(Entries)
        /\ PerType(f, "builtins_impl") \in Seq(Entries)
        /\ PerType(f, "builtins_def") \in Seq(Entries)
        /\ PerTypePair(f, "stdlib_stub_def", "stdlib_stub") \in Seq(Entries)
    BY PerTypeEntries DEF Kinds
  <2>6. /\ stdlib_def_buffer \in Seq(Entries) /\ stdlib_impl_buffer \in Seq(Entries)
        /\ builtins_def_buffer \in Seq(Entries) /\ builtins_impl_buffer \in Seq(Entries)
    BY DEF GenTypeOK
  <2>7. CASE f.native
    <3>1. /\ stdlib_impl_buffer' =
               stdlib_impl_buffer \o PerTypePair(f, "stdlib_stub_def", "stdlib_stub")
          /\ stdlib_def_buffer' = stdlib_def_buffer \o PerType(f, "stdlib_def")
          /\ builtins_impl_buffer' = builtins_impl_buffer \o PerType(f, "builtins_impl")
          /\ builtins_def_buffer' = builtins_def_buffer \o PerType(f, "builtins_def")
      BY <2>1, <2>7, Zenon DEF add_function
    <3>. QED
      BY <2>3, <2>4, <2>5, <2>6, <3>1, AllKindsConcat DEF KindsInv
  <2>8. CASE ~f.native
    <3>1. /\ stdlib_def_buffer' = stdlib_def_buffer \o PerType(f, "stdlib_def")
          /\ stdlib_impl_buffer' = stdlib_impl_buffer \o PerType(f, "stdlib_impl")
          /\ UNCHANGED <<builtins_impl_buffer, builtins_def_buffer>>
      BY <2>1, <2>8, Zenon DEF add_function
    <3>. QED
      BY <2>3, <2>4, <2>5, <2>6, <3>1, AllKindsConcat DEF KindsInv
  <2>. QED
    BY <2>7, <2>8
<1>2. CASE ParseDone \/ ParseFails \/ UNCHANGED gvars
  BY <1>2 DEF ParseDone, ParseFails, gvars, KindsInv, FilesHoldTheirKinds
<1>3. CASE gen_write
  <2>1. UNCHANGED <<builtins_impl_buffer, builtins_def_buffer, stdlib_impl_buffer,
                    stdlib_def_buffer>>
    BY <1>3 DEF gen_write
  <2>2. \A i \in 1 .. 4 : files'[i] = BufferOf(i) \/ files'[i] = files[i]
    BY <1>3 DEF gen_write
  <2>3. \A i \in 1 .. 4 : AllKinds(BufferOf(i), FileKinds(OutFiles[i]))
    BY BufferOfKinds
  <2>4. FilesHoldTheirKinds'
    <3>1. SUFFICES ASSUME NEW i \in 1 .. 4, files'[i] # Stale
                   PROVE  AllKinds(files'[i], FileKinds(OutFiles[i]))
      BY DEF FilesHoldTheirKinds, AllKinds
    <3>2. CASE files'[i] = BufferOf(i)
      BY <2>3, <3>2
    <3>3. CASE files'[i] = files[i]
      BY <3>1, <3>3, FilesKindsDef DEF KindsInv
    <3>. QED
      BY <2>2, <3>2, <3>3
  <2>. QED
    BY <2>1, <2>4 DEF KindsInv
<1>. QED
  BY <1>1, <1>2, <1>3 DEF GenNext

(* Along every run of the generator, whatever DSL it reads, each header it *)
(* writes holds only the fragments that header is for: the public          *)
(* prototypes in stdlib_def.h, bodies and native stubs in stdlib_impl.h,  *)
(* the registry in builtins_def.h, implementations in builtins_impl.h.    *)
THEOREM FileContents == GenSpec => []FilesHoldTheirKinds
<1>1. GenInit => GenTypeOK /\ KindsInv
  BY GenAssumption DEF GenInit, GenTypeOK, KindsInv, AllKinds, FilesHoldTheirKinds
<1>2. GenTypeOK /\ KindsInv /\ [GenNext]_gvars => (GenTypeOK /\ KindsInv)'
  BY GenTypeStep, KindsStep
<1>3. KindsInv => FilesHoldTheirKinds
  BY DEF KindsInv
<1>. QED
  BY <1>1, <1>2, <1>3, PTL DEF GenSpec

(* The action property FilesWrittenFromFinalBuffers holds of every run:   *)
(* files change only in Generator.write, each to its own buffer, and the  *)
(* buffers are frozen once Parser.parse has returned or raised.           *)
THEOREM WriteAfterParse == GenSpec => FilesWrittenFromFinalBuffers
<1>1. [GenNext]_gvars =>
        [ /\ phase # "parse" =>
               UNCHANGED <<builtins_impl_buffer, builtins_def_buffer,
                           stdlib_impl_buffer, stdlib_def_buffer>>
          /\ \A i \in 1 .. 4 :
               files'[i] # files[i] => phase = "write" /\ files'[i] = BufferOf(i) ]_gvars
  <2>1. CASE \E f \in Functions : add_function(f)
    BY <2>1 DEF add_function
  <2>2. CASE ParseDone \/ ParseFails
    BY <2>2 DEF ParseDone, ParseFails
  <2>3. CASE gen_write
    BY <2>3 DEF gen_write
  <2>4. CASE UNCHANGED gvars
    BY <2>4
  <2>. QED
    BY <2>1, <2>2, <2>3, <2>4 DEF GenNext
<1>. QED
  BY <1>1, PTL DEF GenSpec, FilesWrittenFromFinalBuffers

=============================================================================

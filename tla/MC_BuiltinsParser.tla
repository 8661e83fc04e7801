-------------------------- MODULE MC_BuiltinsParser --------------------------
(***************************************************************************)
(* Small instance of BuiltinsParser: two definitions, one of which uses   *)
(* the other (and repeats a type it already holds), a native and a plain  *)
(* function header, a line starting with 'end', body or other text, and  *)
(* a header that raises IndexError.                                        *)
(***************************************************************************)
EXTENDS BuiltinsParser, TLC

CONSTANTS TV, VV, NoneV, StaleV, NoDefV, NoFuncV

float   == [base |-> "float", digits |-> <<>>]
float2  == [base |-> "float", digits |-> <<"2">>]
float16 == [base |-> "float", digits |-> <<"1", "6">>]
int     == [base |-> "int", digits |-> <<>>]

tType    == [ptr |-> FALSE, base |-> TV, dim |-> <<>>]
tPtrType == [ptr |-> TRUE, base |-> TV, dim |-> <<>>]
tIntVec  == [ptr |-> FALSE, base |-> "int", dim |-> VV]

(* def A : float float2                                                    *)
lDefA == [kind |-> "def", name |-> "A", toks |-> <<[lit |-> float], [lit |-> float2]>>]
(* def B : $A float                                                        *)
lDefB == [kind |-> "def", name |-> "B", toks |-> <<[var |-> "A"], [lit |-> float]>>]
(* native $type add $B : a:$type b:*$type                                  *)
lNative == [kind |-> "native", ret |-> tType, name |-> "add", toks |-> <<[var |-> "B"]>>,
            args |-> <<[name |-> "a", t |-> tType], [name |-> "b", t |-> tPtrType]>>]
(* func int$vecdim add float16 int : a:*$type                              *)
lFunc == [kind |-> "func", ret |-> tIntVec, name |-> "add",
          toks |-> <<[lit |-> float16], [lit |-> int]>>,
          args |-> <<[name |-> "a", t |-> tPtrType]>>]

MCInputLines ==
  {lDefA, lDefB, lNative, lFunc, [kind |-> "end"], [kind |-> "text"],
   [kind |-> "malformed"]}

MCMaxLines == 5

(* The same lines and one whose first token is no keyword (a misspelt     *)
(* 'func', say).                                                           *)
MCInputLinesUnknown == MCInputLines \cup {[kind |-> "unknown"]}
=============================================================================

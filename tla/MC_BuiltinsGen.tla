--------------------------- MODULE MC_BuiltinsGen ---------------------------
(***************************************************************************)
(* Small instance of BuiltinsGen: two base types, scalar, 2-wide and      *)
(* 16-wide vectors (the two-digit suffix case of $vecdim), templates with *)
(* $type, '*' and $vecdim, native and plain functions, zero, one and two  *)
(* arguments.                                                              *)
(***************************************************************************)
EXTENDS BuiltinsGen, TLC

CONSTANTS TV, VV, NoneV, StaleV

float   == [base |-> "float", digits |-> <<>>]
float2  == [base |-> "float", digits |-> <<"2">>]
float16 == [base |-> "float", digits |-> <<"1", "6">>]
int     == [base |-> "int", digits |-> <<>>]

(* "$type", "*$type", "int$vecdim", "float"                                 *)
tType    == [ptr |-> FALSE, base |-> TV, dim |-> <<>>]
tPtrType == [ptr |-> TRUE, base |-> TV, dim |-> <<>>]
tIntVec  == [ptr |-> FALSE, base |-> "int", dim |-> VV]
tFloat   == [ptr |-> FALSE, base |-> "float", dim |-> <<>>]

MCBases == {"float", "int"}
MCFuncNames == {"add"}
MCArgNames == {"a", "b"}
MCBodies == {"body"}

MCRets == {tType, tIntVec, tFloat}
MCArgLists == { <<>>,
                << [name |-> "a", t |-> tType], [name |-> "b", t |-> tPtrType] >>,
                << [name |-> "a", t |-> tPtrType] >> }
MCTypeLists == { <<float, float2>>, <<float16, int>> }

MCFunctions ==
  [name : MCFuncNames, native : BOOLEAN, ret : MCRets, args : MCArgLists,
   types : MCTypeLists, body : MCBodies]

MCMaxAdds == 2
=============================================================================

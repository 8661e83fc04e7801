----------------------------- MODULE EmbedTokens -----------------------------
(***************************************************************************)
(* The strings src/host/src/runtime/embed.py writes, abstracted to        *)
(* tokens: a tag, and for a byte's escape its four characters.  Shared by *)
(* the model of the script's loop (Embed) and the closed form of its      *)
(* output (EmbedAbstract).                                                 *)
(***************************************************************************)
EXTENDS Naturals, Sequences

HexDigit(n) == <<"0", "1", "2", "3", "4", "5", "6", "7", "8", "9",
                 "a", "b", "c", "d", "e", "f">>[n + 1]

(* A written string: its tag, and the characters of an escape.             *)
W(tag) == [tag |-> tag, chars |-> <<>>]

(* '\\x%s' % ('%x' % ord(c)).rjust(2, '0')                                *)
Escape(b) == [tag |-> "esc", chars |-> <<"\\", "x", HexDigit(b \div 16), HexDigit(b % 16)>>]
=============================================================================

----------------------------- MODULE EmbedProofs -----------------------------
(***************************************************************************)
(* Proof that the loop of embed.py (module Embed) writes exactly the      *)
(* closed form of EmbedAbstract: the safety part of EmbedRefinesAbstract, *)
(* for every input length and every set of byte values; its type          *)
(* correctness; and, from the closed form, that every literal line of a   *)
(* non-empty input stays within 80 columns (LinesWithin80).               *)
(***************************************************************************)
EXTENDS Embed, SequenceTheorems, LeastElement, TLAPS

(* The tokens the output may hold for input d.                             *)
TokSet(d) ==
  {Abs!Tok(d, k) : k \in Nat}
    \cup {W(t) : t \in {"header", "open", "close", "closeSemi", "semi", "footer"}}
    \cup {Escape(d[i]) : i \in Nat}

(* What one iteration of the loop appends at line offset i.                *)
Opened(i) == IF i = 0 THEN <<W("open")>> ELSE <<>>
Closed(i) == IF i + 1 = Chunk THEN <<W("close")>> ELSE <<>>

(* A body is a sequence of tokens.                                         *)
LEMMA BodyIsSeq ==
  ASSUME NEW d, NEW p \in Nat
  PROVE  /\ Abs!BodyLen(p) \in Nat
         /\ Abs!Body(d, p) \in Seq(TokSet(d))
         /\ Len(Abs!Body(d, p)) = Abs!BodyLen(p)
<1>1. Abs!BodyLen(p) \in Nat
  BY SMTT(30) DEF Abs!BodyLen, Abs!LineBytes, Abs!LineTokens
<1>2. \A k \in 1 .. Abs!BodyLen(p) : Abs!Tok(d, k) \in TokSet(d)
  BY DEF TokSet
<1>. QED
  BY <1>1, <1>2 DEF Abs!Body

(* The instance's tokens are the script's tokens.                         *)
LEMMA SameTokens ==
  \A x : Abs!W(x) = W(x) /\ Abs!Escape(x) = Escape(x)
BY DEF Abs!W, W, Abs!Escape, Escape, Abs!HexDigit, HexDigit

(* A sequence that starts with s and continues with t is s \o t.          *)
LEMMA ExtendBy ==
  ASSUME NEW S, NEW s \in Seq(S), NEW t \in Seq(S), NEW u \in Seq(S),
         Len(u) = Len(s) + Len(t),
         \A i \in 1 .. Len(s) : u[i] = s[i],
         \A i \in 1 .. Len(t) : u[Len(s) + i] = t[i]
  PROVE  u = s \o t
<1>1. /\ s \o t \in Seq(S)
      /\ Len(s \o t) = Len(s) + Len(t)
      /\ \A i \in 1 .. Len(s) + Len(t) :
           (s \o t)[i] = IF i <= Len(s) THEN s[i] ELSE t[i - Len(s)]
  BY ConcatProperties
<1>2. \A i \in 1 .. Len(u) : u[i] = (s \o t)[i]
  <2>1. SUFFICES ASSUME NEW i \in 1 .. Len(u) PROVE u[i] = (s \o t)[i]
    OBVIOUS
  <2>2. CASE i <= Len(s)
    BY <1>1, <2>2
  <2>3. CASE i > Len(s)
    <3>1. i - Len(s) \in 1 .. Len(t) /\ i = Len(s) + (i - Len(s))
      BY <2>3
    <3>. QED
      BY <1>1, <2>3, <3>1
  <2>. QED
    BY <2>2, <2>3
<1>. QED
  BY <1>1, <1>2, SeqEqual

(* Concatenations of the short tuples the loop writes.                     *)
LEMMA TupleConcat ==
  ASSUME NEW a, NEW b
  PROVE  /\ << >> \o <<a>> = <<a>>
         /\ <<a>> \o << >> = <<a>>
         /\ <<a>> \o <<b>> = <<a, b>>
         /\ <<a, b>> \o << >> = <<a, b>>
<1>1. << >> \in Seq({a, b}) /\ <<a>> \in Seq({a, b}) /\ <<b>> \in Seq({a, b})
      /\ <<a, b>> \in Seq({a, b})
  OBVIOUS
<1>2. /\ << >> \o <<a>> = <<a>> /\ <<a>> \o << >> = <<a>>
      /\ <<a, b>> \o << >> = <<a, b>>
  BY <1>1, ConcatEmptySeq
<1>3. /\ <<a>> \o <<b>> \in Seq({a, b})
      /\ Len(<<a>> \o <<b>>) = 2
      /\ (<<a>> \o <<b>>)[1] = a /\ (<<a>> \o <<b>>)[2] = b
  BY <1>1, ConcatProperties
<1>4. <<a>> \o <<b>> = <<a, b>>
  <2>1. /\ Len(<<a>> \o <<b>>) = Len(<<a, b>>)
        /\ \A i \in 1 .. Len(<<a>> \o <<b>>) : (<<a>> \o <<b>>)[i] = <<a, b>>[i]
    BY <1>3
  <2>. QED
    BY <1>1, <1>3, <2>1, SeqEqual, Zenon
<1>. QED
  BY <1>2, <1>4

(* What one iteration of the loop appends for byte p + 1.                  *)
Piece(d, p) == Opened(p % Chunk) \o <<Escape(d[p + 1])>> \o Closed(p % Chunk)

(* Token t of line q of the body, whatever the input length.              *)
LEMMA TokAt ==
  ASSUME NEW d, NEW q \in Nat, NEW t \in 0 .. 19
  PROVE  Abs!Tok(d, 20 * q + t + 1)
           = IF t = 0 THEN W("open")
             ELSE IF t = 19 THEN W("close")
             ELSE Escape(d[18 * q + t])
<1>1. (20 * q + t + 1 - 1) \div 20 = q /\ (20 * q + t + 1 - 1) % 20 = t
  OBVIOUS
<1>. QED
  BY <1>1, SameTokens DEF Abs!Tok, Abs!LineBytes, Abs!LineTokens

(* The body length after r bytes of line q.                                *)
LEMMA BodyLenAt ==
  ASSUME NEW q \in Nat, NEW r \in 0 .. 17, NEW n, n = 18 * q + r
  PROVE  Abs!BodyLen(n) = 20 * q + (IF r = 0 THEN 0 ELSE r + 1)
<1>1. n \div 18 = q /\ n % 18 = r
  BY SMTT(30)
<1>. QED
  BY <1>1 DEF Abs!BodyLen, Abs!LineBytes, Abs!LineTokens

(* One iteration of 'for c in data' extends the closed form by exactly    *)
(* what the loop writes for byte p + 1 at line offset p % 18: the         *)
(* opening at offset 0, the escape, the closing after the 18th byte.      *)
LEMMA BodyAppend ==
  ASSUME NEW d, NEW p \in Nat
  PROVE  Abs!Body(d, p + 1) = Abs!Body(d, p) \o Piece(d, p)
<1>1. PICK q \in Nat, r \in 0 .. 17 : p = 18 * q + r
  <2>1. p \div 18 \in Nat /\ p % 18 \in 0 .. 17 /\ p = 18 * (p \div 18) + (p % 18)
    BY SMTT(30)
  <2>. QED
    BY <2>1
<1>2. p % Chunk = r
  BY <1>1, SMTT(30) DEF Chunk
<1>3. /\ Abs!BodyLen(p) \in Nat /\ Abs!Body(d, p) \in Seq(TokSet(d))
      /\ Len(Abs!Body(d, p)) = Abs!BodyLen(p)
      /\ Abs!BodyLen(p + 1) \in Nat /\ Abs!Body(d, p + 1) \in Seq(TokSet(d))
      /\ Len(Abs!Body(d, p + 1)) = Abs!BodyLen(p + 1)
  BY BodyIsSeq
<1>4. \A k \in 1 .. Abs!BodyLen(p + 1) : Abs!Body(d, p + 1)[k] = Abs!Tok(d, k)
  BY DEF Abs!Body
<1>5. \A k \in Nat : Abs!Tok(d, k) \in TokSet(d)
  BY DEF TokSet
<1>6. Abs!BodyLen(p) = 20 * q + (IF r = 0 THEN 0 ELSE r + 1)
  BY <1>1, BodyLenAt
<1>7. Abs!BodyLen(p + 1) = 20 * q + r + (IF r = 17 THEN 3 ELSE 2)
  <2>1. CASE r < 17
    <3>1. p + 1 = 18 * q + (r + 1) /\ r + 1 \in 0 .. 17
      BY <1>1, <2>1
    <3>. QED
      BY <3>1, BodyLenAt
  <2>2. CASE r = 17
    <3>1. p + 1 = 18 * (q + 1) + 0 /\ q + 1 \in Nat
      BY <1>1, <2>2
    <3>2. (p + 1) \div 18 = q + 1 /\ (p + 1) % 18 = 0
      BY <3>1, SMTT(30)
    <3>3. Abs!BodyLen(p + 1) = 20 * (q + 1)
      BY <3>2 DEF Abs!BodyLen, Abs!LineBytes, Abs!LineTokens
    <3>. QED
      BY <3>3, <2>2
  <2>. QED
    BY <2>1, <2>2
<1>8. \A k \in 1 .. Len(Abs!Body(d, p)) : Abs!Body(d, p + 1)[k] = Abs!Body(d, p)[k]
  BY <1>3, <1>4, <1>6, <1>7 DEF Abs!Body
<1>9. CASE r = 0
  <2>0. Abs!BodyLen(p) = 20 * q /\ Abs!BodyLen(p + 1) = 20 * q + 2
    BY <1>6, <1>7, <1>9
  <2>1. /\ Abs!Tok(d, 20 * q + 0 + 1) = W("open")
        /\ Abs!Tok(d, 20 * q + 1 + 1) = Escape(d[p + 1])
    BY <1>1, <1>9, TokAt
  <2>2. Piece(d, p) = <<W("open"), Escape(d[p + 1])>>
    <3>1. Opened(p % Chunk) = <<W("open")>> /\ Closed(p % Chunk) = << >>
      BY <1>2, <1>9 DEF Opened, Closed, Chunk
    <3>. QED
      BY <3>1, TupleConcat DEF Piece
  <2>3. <<W("open"), Escape(d[p + 1])>> \in Seq(TokSet(d))
    BY <1>5, <2>1
  <2>4. Len(Abs!Body(d, p + 1)) = Len(Abs!Body(d, p)) + Len(<<W("open"), Escape(d[p + 1])>>)
    BY <1>3, <2>0
  <2>5. \A i \in 1 .. Len(<<W("open"), Escape(d[p + 1])>>) :
          Abs!Body(d, p + 1)[Len(Abs!Body(d, p)) + i] = <<W("open"), Escape(d[p + 1])>>[i]
    BY <1>3, <1>4, <2>0, <2>1
  <2>6. Abs!Body(d, p + 1) = Abs!Body(d, p) \o <<W("open"), Escape(d[p + 1])>>
    BY <1>3, <1>8, <2>3, <2>4, <2>5, ExtendBy
  <2>. QED
    BY <2>2, <2>6
<1>10. CASE r \in 1 .. 16
  <2>0. Abs!BodyLen(p) = 20 * q + r + 1 /\ Abs!BodyLen(p + 1) = 20 * q + r + 2
    BY <1>6, <1>7, <1>10
  <2>1. Abs!Tok(d, 20 * q + (r + 1) + 1) = Escape(d[p + 1])
    BY <1>1, <1>10, TokAt
  <2>2. Piece(d, p) = <<Escape(d[p + 1])>>
    <3>1. Opened(p % Chunk) = << >> /\ Closed(p % Chunk) = << >>
      BY <1>2, <1>10 DEF Opened, Closed, Chunk
    <3>. QED
      BY <3>1, TupleConcat DEF Piece
  <2>3. <<Escape(d[p + 1])>> \in Seq(TokSet(d))
    BY <1>5, <2>1
  <2>4. Len(Abs!Body(d, p + 1)) = Len(Abs!Body(d, p)) + Len(<<Escape(d[p + 1])>>)
    BY <1>3, <2>0
  <2>5. \A i \in 1 .. Len(<<Escape(d[p + 1])>>) :
          Abs!Body(d, p + 1)[Len(Abs!Body(d, p)) + i] = <<Escape(d[p + 1])>>[i]
    BY <1>3, <1>4, <2>0, <2>1
  <2>6. Abs!Body(d, p + 1) = Abs!Body(d, p) \o <<Escape(d[p + 1])>>
    BY <1>3, <1>8, <2>3, <2>4, <2>5, ExtendBy
  <2>. QED
    BY <2>2, <2>6
<1>11. CASE r = 17
  <2>0. Abs!BodyLen(p) = 20 * q + 18 /\ Abs!BodyLen(p + 1) = 20 * q + 20
    BY <1>6, <1>7, <1>11
  <2>1. /\ Abs!Tok(d, 20 * q + 18 + 1) = Escape(d[p + 1])
        /\ Abs!Tok(d, 20 * q + 19 + 1) = W("close")
    BY <1>1, <1>11, TokAt
  <2>2. Piece(d, p) = <<Escape(d[p + 1]), W("close")>>
    <3>1. Opened(p % Chunk) = << >> /\ Closed(p % Chunk) = <<W("close")>>
      BY <1>2, <1>11 DEF Opened, Closed, Chunk
    <3>. QED
      BY <3>1, TupleConcat DEF Piece
  <2>3. <<Escape(d[p + 1]), W("close")>> \in Seq(TokSet(d))
    BY <1>5, <2>1
  <2>4. Len(Abs!Body(d, p + 1)) = Len(Abs!Body(d, p)) + Len(<<Escape(d[p + 1]), W("close")>>)
    BY <1>3, <2>0
  <2>5. \A i \in 1 .. Len(<<Escape(d[p + 1]), W("close")>>) :
          Abs!Body(d, p + 1)[Len(Abs!Body(d, p)) + i] = <<Escape(d[p + 1]), W("close")>>[i]
    BY <1>3, <1>4, <2>0, <2>1
  <2>6. Abs!Body(d, p + 1) = Abs!Body(d, p) \o <<Escape(d[p + 1]), W("close")>>
    BY <1>3, <1>8, <2>3, <2>4, <2>5, ExtendBy
  <2>. QED
    BY <2>2, <2>6
<1>12. r = 0 \/ r \in 1 .. 16 \/ r = 17
  BY <1>1
<1>. QED
  BY <1>12, <1>9, <1>10, <1>11

-----------------------------------------------------------------------------
(* The loop invariant: while the loop runs, the file holds the header     *)
(* and the closed-form body of the bytes written so far, and 'index' is   *)
(* the number of bytes on the current line; once the script is done the  *)
(* file is the whole closed form.                                          *)
IInv ==
  /\ TypeOK
  /\ index = pos % Chunk
  /\ pc = "loop" => out = <<W("header")>> \o Abs!Body(data, pos)
  /\ pc = "done" => out = Abs!Rendered(data)

(* What TypeOK says of the input as a sequence.                            *)
LEMMA DataSeq ==
  ASSUME TypeOK
  PROVE  /\ data \in Seq(Bytes) /\ pos \in Nat /\ pos <= Len(data)
<1>1. PICK n \in MinData .. MaxData : data \in [1 .. n -> Bytes]
  BY DEF TypeOK
<1>2. n \in Nat
  BY <1>1, EmbedAssumption
<1>. QED
  BY <1>1, <1>2 DEF TypeOK

(* Before the loop nothing of the body is written.                         *)
LEMMA InitIInv == Init => IInv
<1>. SUFFICES ASSUME Init PROVE IInv
  OBVIOUS
<1>1. TypeOK
  <2>1. PICK n \in MinData .. MaxData : data \in [1 .. n -> Bytes]
    BY DEF Init
  <2>2. n \in Nat /\ data \in Seq(Bytes) /\ Len(data) = n
    BY <2>1, EmbedAssumption
  <2>. QED
    BY <2>1, <2>2 DEF Init, TypeOK, Chunk
<1>2. Abs!Body(data, 0) = << >>
  BY DEF Abs!Body, Abs!BodyLen, Abs!LineBytes, Abs!LineTokens
<1>3. <<W("header")>> \o << >> = <<W("header")>>
  BY TupleConcat
<1>. QED
  BY <1>1, <1>2, <1>3 DEF Init, IInv, Chunk

(* One iteration of the loop keeps the file equal to the closed form of   *)
(* the bytes written so far.                                               *)
LEMMA WriteByteIInv == IInv /\ WriteByte => IInv'
<1>. SUFFICES ASSUME IInv, WriteByte PROVE IInv'
  OBVIOUS
<1>1. /\ data \in Seq(Bytes) /\ pos \in Nat /\ pos < Len(data)
      /\ pc = "loop" /\ pc' = "loop" /\ data' = data /\ pos' = pos + 1
  BY DataSeq DEF IInv, WriteByte
<1>2. index' = pos' % Chunk
  <2>1. index' = (IF index + 1 = Chunk THEN 0 ELSE index + 1)
    BY DEF WriteByte
  <2>2. index = pos % Chunk
    BY DEF IInv
  <2>. QED
    BY <1>1, <2>1, <2>2, SMTT(30) DEF Chunk
<1>3. TypeOK'
  BY <1>1, <1>2, SMTT(30) DEF IInv, TypeOK, WriteByte, Chunk
<1>4. out' = <<W("header")>> \o Abs!Body(data', pos')
  <2>1. out' = ((out \o Opened(index)) \o <<Escape(data[pos + 1])>>) \o Closed(index)
    BY DEF WriteByte, Opened, Closed
  <2>2. out = <<W("header")>> \o Abs!Body(data, pos)
    BY <1>1 DEF IInv
  <2>3. /\ <<W("header")>> \in Seq(TokSet(data)) /\ Abs!Body(data, pos) \in Seq(TokSet(data)) /\ <<Escape(data[pos + 1])>> \in Seq(TokSet(data))
        /\ Opened(index) \in Seq(TokSet(data)) /\ Closed(index) \in Seq(TokSet(data))
    <3>1. Abs!Body(data, pos) \in Seq(TokSet(data))
      BY <1>1, BodyIsSeq
    <3>2. Escape(data[pos + 1]) \in TokSet(data)
      BY <1>1 DEF TokSet
    <3>3. W("header") \in TokSet(data) /\ W("open") \in TokSet(data) /\ W("close") \in TokSet(data)
      BY DEF TokSet
    <3>. QED
      BY <3>1, <3>2, <3>3 DEF Opened, Closed
  <2>4. <<W("header")>> \o Abs!Body(data, pos) \in Seq(TokSet(data))
    BY <2>3, ConcatProperties
  <2>5. out' = (<<W("header")>> \o Abs!Body(data, pos)) \o ((Opened(index) \o <<Escape(data[pos + 1])>>) \o Closed(index))
    <3>0. PICK T : T = TokSet(data)
      OBVIOUS
    <3>1. PICK H \in Seq(T), O \in Seq(T), E \in Seq(T), C \in Seq(T) :
            /\ H = <<W("header")>> \o Abs!Body(data, pos)
            /\ O = Opened(index)
            /\ E = <<Escape(data[pos + 1])>>
            /\ C = Closed(index)
      BY <2>3, <2>4, <3>0
    <3>2. (H \o O) \o E = H \o (O \o E)
      BY ConcatAssociative
    <3>3. PICK OE \in Seq(T) : OE = O \o E
      BY ConcatProperties
    <3>4. (H \o OE) \o C = H \o (OE \o C)
      BY ConcatAssociative
    <3>. QED
      BY <2>1, <2>2, <3>1, <3>2, <3>3, <3>4
  <2>6. (Opened(index) \o <<Escape(data[pos + 1])>>) \o Closed(index) = Piece(data, pos)
    BY DEF IInv, Piece
  <2>7. Abs!Body(data, pos + 1) = Abs!Body(data, pos) \o Piece(data, pos)
    BY <1>1, BodyAppend
  <2>8. Piece(data, pos) \in Seq(TokSet(data))
    <3>1. Opened(index) \o <<Escape(data[pos + 1])>> \in Seq(TokSet(data))
      BY <2>3, ConcatProperties
    <3>2. (Opened(index) \o <<Escape(data[pos + 1])>>) \o Closed(index) \in Seq(TokSet(data))
      BY <2>3, <3>1, ConcatProperties
    <3>. QED
      BY <2>6, <3>2
  <2>9. (<<W("header")>> \o Abs!Body(data, pos)) \o Piece(data, pos) = <<W("header")>> \o (Abs!Body(data, pos) \o Piece(data, pos))
    BY <2>3, <2>8, ConcatAssociative
  <2>. QED
    BY <1>1, <2>5, <2>6, <2>7, <2>9
<1>. QED
  BY <1>1, <1>2, <1>3, <1>4 DEF IInv

(* The terminator and the footer complete the closed form.                 *)
LEMMA FinishIInv == IInv /\ Finish => IInv'
<1>. SUFFICES ASSUME IInv, Finish PROVE IInv'
  OBVIOUS
<1>1. /\ data \in Seq(Bytes) /\ pos = Len(data)
      /\ pc = "loop" /\ pc' = "done"
      /\ UNCHANGED <<data, pos, index>>
  BY DataSeq DEF IInv, Finish
<1>2. TypeOK'
  BY <1>1 DEF IInv, TypeOK
<1>3. (IF index # 0 THEN W("closeSemi") ELSE W("semi")) = Abs!Terminator(data)
  <2>1. index = Len(data) % 18
    BY <1>1 DEF IInv, Chunk
  <2>. QED
    BY <2>1, SameTokens DEF Abs!Terminator, Abs!LineBytes
<1>4. out' = Abs!Rendered(data)
  <2>. DEFINE T == IF index # 0 THEN W("closeSemi") ELSE W("semi")
  <2>1. out' = (out \o <<T>>) \o <<W("footer")>>
    BY DEF Finish
  <2>2. out = <<W("header")>> \o Abs!Body(data, Len(data))
    BY <1>1 DEF IInv
  <2>3. /\ <<W("header")>> \o Abs!Body(data, Len(data)) \in Seq(TokSet(data))
        /\ <<T>> \in Seq(TokSet(data)) /\ <<W("footer")>> \in Seq(TokSet(data))
    <3>1. Abs!Body(data, Len(data)) \in Seq(TokSet(data))
      BY <1>1, BodyIsSeq
    <3>2. <<W("header")>> \in Seq(TokSet(data)) /\ T \in TokSet(data)
          /\ W("footer") \in TokSet(data)
      BY DEF TokSet
    <3>. QED
      BY <3>1, <3>2, ConcatProperties
  <2>4. (out \o <<T>>) \o <<W("footer")>> = out \o (<<T>> \o <<W("footer")>>)
    BY <2>2, <2>3, ConcatAssociative
  <2>5. <<T>> \o <<W("footer")>> = <<Abs!Terminator(data), Abs!W("footer")>>
    BY <1>3, TupleConcat, SameTokens
  <2>. QED
    BY <2>1, <2>2, <2>4, <2>5, SameTokens DEF Abs!Rendered
<1>. QED
  BY <1>1, <1>2, <1>3, <1>4 DEF IInv

(* A step of the script, or a stutter, keeps the invariant.                *)
LEMMA NextIInv == IInv /\ [Next]_evars => IInv'
<1>. SUFFICES ASSUME IInv, [Next]_evars PROVE IInv'
  OBVIOUS
<1>1. CASE WriteByte
  BY <1>1, WriteByteIInv
<1>2. CASE Finish
  BY <1>2, FinishIInv
<1>3. CASE UNCHANGED evars
  BY <1>3 DEF IInv, TypeOK, evars
<1>. QED
  BY <1>1, <1>2, <1>3 DEF Next

(* embed.py's loop keeps the output equal to the closed form of the bytes *)
(* written so far, for every input length and every set of byte values.  *)
THEOREM EmbedInvariant == Spec => []IInv
BY InitIInv, NextIInv, PTL DEF Spec

(* Type correctness of embed.py's loop: the input keeps its length, the   *)
(* bytes written never pass its end, the script's 'index' stays below a  *)
(* full line of 18, and the script is in the loop or done.               *)
THEOREM EmbedTypeCorrect == Spec => []TypeOK
<1>1. IInv => TypeOK
  BY DEF IInv
<1>. QED
  BY <1>1, EmbedInvariant, PTL

(* Every step of the script is a step of EmbedAbstract under the mapping  *)
(* of Abs: a loop iteration leaves the mapped output at the header alone, *)
(* and the final step writes exactly Rendered(data).                       *)
LEMMA StepRefines == IInv /\ [Next]_evars => [Abs!Next]_Abs!avars
<1>. SUFFICES ASSUME IInv, [Next]_evars PROVE [Abs!Next]_Abs!avars
  OBVIOUS
<1>1. CASE WriteByte
  <2>1. pc = "loop" /\ pc' = "loop" /\ data' = data
    BY <1>1 DEF WriteByte
  <2>. QED
    BY <2>1 DEF Abs!avars
<1>2. CASE Finish
  <2>1. pc = "loop" /\ pc' = "done" /\ data' = data
    BY <1>2 DEF Finish
  <2>2. out' = Abs!Rendered(data)
    BY <1>2, <2>1, FinishIInv DEF IInv
  <2>. QED
    BY <2>1, <2>2 DEF Abs!Next, Abs!Emit
<1>3. CASE UNCHANGED evars
  BY <1>3 DEF evars, Abs!avars
<1>. QED
  BY <1>1, <1>2, <1>3 DEF Next

(* embed.py implements EmbedAbstract: under the mapping of Abs every      *)
(* behaviour of the script's loop is a behaviour of the one-step closed   *)
(* form, for every input length and every set of byte values.  This is    *)
(* the safety part of EmbedRefinesAbstract; its fairness part stays with  *)
(* TLC.                                                                    *)
THEOREM EmbedRefinement == Spec => Abs!SafeSpec
<1>1. Init => Abs!Init
  BY SameTokens DEF Init, Abs!Init
<1>2. IInv /\ [Next]_evars => [Abs!Next]_Abs!avars
  BY StepRefines
<1>. QED
  BY <1>1, <1>2, EmbedInvariant, PTL DEF Spec, Abs!SafeSpec


-----------------------------------------------------------------------------
(***************************************************************************)
(* The layout of the closed form: every literal line within 80 columns.   *)
(***************************************************************************)

(* The strings between the header and the footer.                          *)
BodyOut(o) == SubSeq(o, 2, Len(o) - 1)

(* A token's kind is fixed by its offset in its line of 20.                *)
LEMMA TokTag ==
  ASSUME NEW d, NEW k \in Nat \ {0}
  PROVE  /\ (k - 1) % 20 = 0 => Abs!Tok(d, k).tag = "open"
         /\ (k - 1) % 20 = 19 => Abs!Tok(d, k).tag = "close"
         /\ (k - 1) % 20 \in 1 .. 18 => Abs!Tok(d, k).tag = "esc"
BY DEF Abs!Tok, Abs!LineTokens, Abs!LineBytes, Abs!W, Abs!Escape

(* The widths and line ends of the strings, by their tags.                 *)
LEMMA TagFacts ==
  ASSUME NEW t
  PROVE  /\ t.tag = "open" => Width(t) = 5 /\ ~Ends(t)
         /\ t.tag = "close" => Width(t) = 1 /\ Ends(t)
         /\ t.tag = "closeSemi" => Width(t) = 2
         /\ t.tag = "esc" => ~Ends(t)
BY DEF Width, Ends

(* The strings between header and footer are the body and the terminator. *)
LEMMA RenderedBody ==
  ASSUME NEW d \in Seq(Bytes)
  PROVE  /\ Len(BodyOut(Abs!Rendered(d))) = Abs!BodyLen(Len(d)) + 1
         /\ \A k \in 1 .. Abs!BodyLen(Len(d)) :
              BodyOut(Abs!Rendered(d))[k] = Abs!Tok(d, k)
         /\ BodyOut(Abs!Rendered(d))[Abs!BodyLen(Len(d)) + 1] = Abs!Terminator(d)
<1>1. PICK T : T = TokSet(d)
  OBVIOUS
<1>2. PICK n \in Nat : n = Len(d)
  OBVIOUS
<1>3. /\ Abs!BodyLen(n) \in Nat
      /\ Abs!Body(d, n) \in Seq(TokSet(d))
      /\ Len(Abs!Body(d, n)) = Abs!BodyLen(n)
  BY BodyIsSeq
<1>4. PICK L \in Nat : L = Abs!BodyLen(n)
  BY <1>3
<1>5. PICK Bd \in Seq(T) : Bd = Abs!Body(d, n)
  BY <1>1, <1>3
<1>6. Len(Bd) = L /\ \A k \in 1 .. L : Bd[k] = Abs!Tok(d, k)
  BY <1>3, <1>4, <1>5 DEF Abs!Body
<1>7. /\ Abs!W("header") \in T /\ Abs!W("footer") \in T
      /\ Abs!Terminator(d) \in T
  BY <1>1, SameTokens DEF TokSet, Abs!Terminator
<1>8. PICK H \in Seq(T) : H = <<Abs!W("header")>>
  <2>1. <<Abs!W("header")>> \in Seq(T)
    BY <1>7
  <2>. QED
    BY <2>1
<1>9. PICK E \in Seq(T) : E = <<Abs!Terminator(d), Abs!W("footer")>>
  <2>1. <<Abs!Terminator(d), Abs!W("footer")>> \in Seq(T)
    BY <1>7
  <2>. QED
    BY <2>1
<1>10. PICK HB \in Seq(T) : HB = H \o Bd
  BY ConcatProperties
<1>11. Len(HB) = L + 1 /\ \A k \in 1 .. L : HB[k + 1] = Abs!Tok(d, k)
  BY <1>6, <1>8, <1>10
<1>12. PICK R \in Seq(T) : R = HB \o E
  BY ConcatProperties
<1>13. /\ Len(R) = L + 3
       /\ \A k \in 1 .. L : R[k + 1] = Abs!Tok(d, k)
       /\ R[L + 2] = Abs!Terminator(d)
  BY <1>9, <1>11, <1>12
<1>14. R = Abs!Rendered(d)
  BY <1>2, <1>5, <1>8, <1>9, <1>10, <1>12 DEF Abs!Rendered
<1>15. /\ Len(BodyOut(R)) = L + 1
       /\ \A k \in 1 .. L + 1 : BodyOut(R)[k] = R[k + 1]
  BY <1>13 DEF BodyOut
<1>16. BodyOut(Abs!Rendered(d)) = BodyOut(R) /\ Abs!BodyLen(Len(d)) = L
  BY <1>2, <1>4, <1>14
<1>. QED
  BY <1>13, <1>15, <1>16


(* For n >= 1 bytes the body has at least an opening and an escape; it   *)
(* ends on a full line exactly when n is a multiple of 18; and a line    *)
(* starting at i either has its 18 escapes and closing inside the body,  *)
(* or is the last, partial line of n % 18 escapes.                        *)
LEMMA LineArith ==
  ASSUME NEW n \in Nat, n >= 1
  PROVE  LET L == Abs!BodyLen(n)
         IN  /\ L \in Nat /\ L >= 2
             /\ n % 18 = 0 => (L - 1) % 20 = 19
             /\ n % 18 # 0 => (L - 1) % 20 = n % 18 /\ n % 18 \in 1 .. 17
             /\ \A i \in 1 .. L :
                  (i - 1) % 20 = 0 => \/ i + 19 <= L
                                      \/ n % 18 # 0 /\ L - i = n % 18
<1>1. PICK q \in Nat, m \in 0 .. 17 : n = 18 * q + m
  <2>1. n \div 18 \in Nat /\ n % 18 \in 0 .. 17 /\ n = 18 * (n \div 18) + (n % 18)
    BY SMTT(30)
  <2>. QED
    BY <2>1
<1>2. n \div 18 = q /\ n % 18 = m
  BY <1>1, SMTT(30)
<1>3. Abs!BodyLen(n) = 20 * q + (IF m = 0 THEN 0 ELSE m + 1)
  BY <1>2 DEF Abs!BodyLen, Abs!LineBytes, Abs!LineTokens
<1>4. m = 0 => q >= 1
  BY <1>1
<1>5. /\ m = 0 => (20 * q - 1) % 20 = 19
      /\ m # 0 => (20 * q + m) % 20 = m
  BY <1>4, SMTT(30)
<1>6. ASSUME NEW i \in 1 .. Abs!BodyLen(n), (i - 1) % 20 = 0
      PROVE  \/ i + 19 <= Abs!BodyLen(n)
             \/ m # 0 /\ Abs!BodyLen(n) - i = m
  <2>1. PICK p \in Nat : i - 1 = 20 * p
    <3>1. (i - 1) \div 20 \in Nat /\ i - 1 = 20 * ((i - 1) \div 20)
      BY <1>6, SMTT(30)
    <3>. QED
      BY <3>1
  <2>2. CASE p < q
    BY <1>3, <2>1, <2>2
  <2>3. CASE p >= q
    BY <1>3, <1>6, <2>1, <2>3
  <2>. QED
    BY <2>2, <2>3
<1>. QED
  BY <1>2, <1>3, <1>4, <1>5, <1>6


(* Offsets within a line of 20.                                            *)
LEMMA ModShift ==
  ASSUME NEW a \in Nat, a % 20 = 0, NEW b \in 0 .. 19
  PROVE  (a + b) % 20 = b
BY SMTT(30)

(* The closed form of embed.py's output for a non-empty input is a C      *)
(* initializer whose literal lines fit in 80 columns.                      *)
LEMMA RenderedWellFormed ==
  ASSUME NEW d \in Seq(Bytes), Len(d) >= 1
  PROVE  WellFormedBody(BodyOut(Abs!Rendered(d)))
<1>1. PICK n \in Nat : n = Len(d)
  OBVIOUS
<1>2. PICK L \in Nat : L = Abs!BodyLen(n)
  BY <1>1, LineArith
<1>3. PICK B : B = BodyOut(Abs!Rendered(d))
  OBVIOUS
<1>4. /\ Len(B) = L + 1
      /\ \A k \in 1 .. L : B[k] = Abs!Tok(d, k)
      /\ B[L + 1] = Abs!Terminator(d)
  BY <1>1, <1>2, <1>3, RenderedBody
<1>5. /\ L >= 2
      /\ n % 18 = 0 => (L - 1) % 20 = 19
      /\ n % 18 # 0 => (L - 1) % 20 = n % 18 /\ n % 18 \in 1 .. 17
      /\ \A i \in 1 .. L :
           (i - 1) % 20 = 0 => \/ i + 19 <= L
                               \/ n % 18 # 0 /\ L - i = n % 18
  BY <1>1, <1>2, LineArith
<1>6. B[L + 1].tag = IF n % 18 # 0 THEN "closeSemi" ELSE "semi"
  BY <1>1, <1>4 DEF Abs!Terminator, Abs!LineBytes, Abs!W
<1>7. \A k \in 1 .. L : (k - 1) % 20 = 0 => B[k].tag = "open"
  BY <1>4, TokTag
<1>10. \A k \in 1 .. L : Ends(B[k]) => (k - 1) % 20 = 19
  <2>1. SUFFICES ASSUME NEW k \in 1 .. L, Ends(B[k]) PROVE (k - 1) % 20 = 19
    OBVIOUS
  <2>2. (k - 1) % 20 \in 0 .. 19 /\ k \in Nat \ {0}
    BY SMTT(30)
  <2>3. B[k] = Abs!Tok(d, k)
    BY <1>4
  <2>4. /\ (k - 1) % 20 = 0 => Abs!Tok(d, k).tag = "open"
        /\ (k - 1) % 20 \in 1 .. 18 => Abs!Tok(d, k).tag = "esc"
    BY <2>2, TokTag
  <2>5. (k - 1) % 20 # 0 /\ (k - 1) % 20 \notin 1 .. 18
    BY <2>1, <2>3, <2>4 DEF Ends
  <2>. QED
    BY <2>2, <2>5
<1>11. \A k \in 1 .. L : (k - 1) % 20 \in 1 .. 18 => B[k].tag = "esc"
  <2>1. SUFFICES ASSUME NEW k \in 1 .. L, (k - 1) % 20 \in 1 .. 18 PROVE B[k].tag = "esc"
    OBVIOUS
  <2>2. k \in Nat \ {0} /\ B[k] = Abs!Tok(d, k)
    BY <1>4
  <2>. QED
    BY <2>1, <2>2, TokTag
<1>8. /\ Len(B) >= 3
      /\ B[1].tag = "open"
      /\ B[Len(B)].tag \in {"closeSemi", "semi"}
  BY <1>4, <1>5, <1>6, <1>7
<1>9. ASSUME NEW i \in LineStarts(B) PROVE LineOK(B, i)
  <2>1. i \in 1 .. L + 1 /\ (i = 1 \/ Ends(B[i - 1]))
    BY <1>4, <1>9 DEF LineStarts
  <2>2. CASE i = L + 1
    <3>1. Ends(B[L])
      BY <1>5, <2>1, <2>2
    <3>2. (L - 1) % 20 = 19
      BY <1>5, <1>10, <3>1
    <3>3. n % 18 = 0
      BY <1>5, <3>2
    <3>. QED
      BY <1>4, <1>6, <2>2, <3>3 DEF LineOK
  <2>3. CASE i <= L
    <3>1. (i - 1) % 20 = 0
      <4>1. CASE i = 1
        BY <4>1
      <4>2. CASE i # 1
        <5>1. i - 1 \in 1 .. L /\ Ends(B[i - 1])
          BY <2>1, <2>3, <4>2
        <5>2. (i - 2) % 20 = 19
          <6>1. i - 1 - 1 = i - 2
            BY <2>1
          <6>. QED
            BY <1>10, <5>1, <6>1
        <5>. QED
          BY <2>1, <5>2, SMTT(30)
      <4>. QED
        BY <4>1, <4>2
    <3>2. B[i].tag = "open" /\ Width(B[i]) = 5
      BY <1>7, <2>1, <2>3, <3>1, TagFacts
    <3>3. \A k \in i + 1 .. L : k - i <= 18 => ~Ends(B[k]) /\ B[k].tag # "open"
      <4>1. SUFFICES ASSUME NEW k \in i + 1 .. L, k - i <= 18
                     PROVE  ~Ends(B[k]) /\ B[k].tag # "open"
        OBVIOUS
      <4>2. (k - 1) % 20 = k - i /\ k - i \in 1 .. 18
        <5>1. PICK a \in Nat : a = i - 1
          BY <2>1
        <5>2. PICK b \in 1 .. 18 : b = k - i
          BY <2>1, <4>1
        <5>3. (a + b) % 20 = b
          BY <3>1, <5>1, ModShift
        <5>4. k - 1 = a + b
          BY <2>1, <4>1, <5>1, <5>2
        <5>. QED
          BY <5>2, <5>3, <5>4
      <4>3. B[k].tag = "esc"
        BY <1>11, <2>1, <4>1, <4>2
      <4>. QED
        BY <4>3 DEF Ends
    <3>4. CASE i + 19 <= L
      <4>1. (i + 19 - 1) % 20 = 19
        <5>1. i - 1 \in Nat /\ i + 19 - 1 = (i - 1) + 19
          BY <2>1
        <5>. QED
          BY <3>1, <5>1, ModShift
      <4>2. B[i + 19].tag = "close" /\ Width(B[i + 19]) = 1
        BY <1>4, <2>1, <3>4, <4>1, TokTag, TagFacts
      <4>3. \A k \in i + 1 .. i + 19 - 1 : ~Ends(B[k]) /\ B[k].tag # "open"
        <5>1. SUFFICES ASSUME NEW k \in i + 1 .. i + 19 - 1
                       PROVE  ~Ends(B[k]) /\ B[k].tag # "open"
          OBVIOUS
        <5>2. k \in i + 1 .. L /\ k - i <= 18
          BY <2>1, <3>4
        <5>. QED
          BY <3>3, <5>2
      <4>4. i + 19 \in i + 2 .. Len(B)
        BY <1>4, <2>1, <3>4
      <4>5. Width(B[i]) + Width(B[i + 19]) + 4 * (i + 19 - i - 1) <= 80
        BY <2>1, <3>2, <4>2
      <4>6. /\ B[i + 19].tag \in {"close", "closeSemi"}
            /\ \A k \in i + 1 .. i + 19 - 1 : ~Ends(B[k]) /\ B[k].tag # "open"
            /\ Width(B[i]) + Width(B[i + 19]) + 4 * (i + 19 - i - 1) <= 80
        BY <4>2, <4>3, <4>5
      <4>7. \E j \in i + 2 .. Len(B) :
              /\ B[j].tag \in {"close", "closeSemi"}
              /\ \A k \in i + 1 .. j - 1 : ~Ends(B[k]) /\ B[k].tag # "open"
              /\ Width(B[i]) + Width(B[j]) + 4 * (j - i - 1) <= 80
        <5>. WITNESS i + 19 \in i + 2 .. Len(B)
        <5>. QED
          BY <2>1, <4>4, <4>6
      <4>. QED
        BY <3>2, <4>7 DEF LineOK
    <3>5. CASE n % 18 # 0 /\ L - i = n % 18
      <4>1. B[L + 1].tag = "closeSemi" /\ Width(B[L + 1]) = 2
        BY <1>6, <3>5, TagFacts
      <4>2. \A k \in i + 1 .. L + 1 - 1 : ~Ends(B[k]) /\ B[k].tag # "open"
        <5>1. SUFFICES ASSUME NEW k \in i + 1 .. L + 1 - 1
                       PROVE  ~Ends(B[k]) /\ B[k].tag # "open"
          OBVIOUS
        <5>2. k \in i + 1 .. L /\ k - i <= 18
          BY <1>5, <2>1, <3>5
        <5>. QED
          BY <3>3, <5>2
      <4>3. L + 1 \in i + 2 .. Len(B)
        BY <1>4, <1>5, <2>1, <3>5
      <4>4. Width(B[i]) + Width(B[L + 1]) + 4 * (L + 1 - i - 1) <= 80
        BY <1>5, <2>1, <3>2, <3>5, <4>1
      <4>5. /\ B[L + 1].tag \in {"close", "closeSemi"}
            /\ \A k \in i + 1 .. L + 1 - 1 : ~Ends(B[k]) /\ B[k].tag # "open"
            /\ Width(B[i]) + Width(B[L + 1]) + 4 * (L + 1 - i - 1) <= 80
        BY <4>1, <4>2, <4>4
      <4>6. \E j \in i + 2 .. Len(B) :
              /\ B[j].tag \in {"close", "closeSemi"}
              /\ \A k \in i + 1 .. j - 1 : ~Ends(B[k]) /\ B[k].tag # "open"
              /\ Width(B[i]) + Width(B[j]) + 4 * (j - i - 1) <= 80
        <5>. WITNESS L + 1 \in i + 2 .. Len(B)
        <5>. QED
          BY <2>1, <4>3, <4>5
      <4>. QED
        BY <3>2, <4>6 DEF LineOK
    <3>. QED
      BY <1>5, <2>1, <2>3, <3>1, <3>4, <3>5
  <2>. QED
    BY <2>1, <2>2, <2>3
<1>. QED
  BY <1>3, <1>8, <1>9 DEF WellFormedBody


(* Once embed.py has finished on a non-empty input (the build embeds      *)
(* non-empty files; an empty one leaves '= ;'), the lines between its     *)
(* header and footer form a C initializer whose literal lines are each    *)
(* '    "', at most 18 escapes and '"' or '";', within 80 columns, for   *)
(* every input length: the property LinesWithin80 the embed run checks.   *)
THEOREM EmbedLinesWithin80 == MinData >= 1 => (Spec => []LinesWithin80)
<1>1. MinData >= 1 /\ IInv => LinesWithin80
  <2>. SUFFICES ASSUME MinData >= 1, IInv, pc = "done"
                PROVE  WellFormedBody(SubSeq(out, 2, Len(out) - 1))
    BY DEF LinesWithin80
  <2>1. out = Abs!Rendered(data)
    BY DEF IInv
  <2>2. data \in Seq(Bytes) /\ Len(data) >= 1
    <3>1. PICK n \in MinData .. MaxData : data \in [1 .. n -> Bytes]
      BY DEF IInv, TypeOK
    <3>2. n \in Nat /\ n >= 1
      BY <3>1, EmbedAssumption
    <3>. QED
      BY <3>1, <3>2
  <2>3. WellFormedBody(BodyOut(Abs!Rendered(data)))
    BY <2>2, RenderedWellFormed
  <2>. QED
    BY <2>1, <2>3 DEF BodyOut
<1>2. ASSUME MinData >= 1 PROVE Spec => []LinesWithin80
  BY <1>1, <1>2, EmbedInvariant, PTL
<1>. QED
  BY <1>2

-----------------------------------------------------------------------------
(***************************************************************************)
(* The escapes spell the input.  EscapesOf is a recursive function over   *)
(* the positions of the output; the lemmas below give it the two facts    *)
(* the loop needs, by induction on the position (LeastElement): what it   *)
(* is for the empty sequence, and what one more string appends to it.    *)
(***************************************************************************)

(* The recursion that defines EscapesOf(s), for a candidate function f.    *)
SelF(s, f, i) ==
  IF i = 0 THEN << >> ELSE IF s[i].tag = "esc" THEN Append(f[i - 1], s[i]) ELSE f[i - 1]

IsSelF(s, f) == f = [i \in 0 .. Len(s) |-> SelF(s, f, i)]

(* f satisfies the recursion on the first n + 1 positions.                 *)
PartSel(s, n, f) == f = [i \in 0 .. n |-> f[i]] /\ \A i \in 0 .. n : f[i] = SelF(s, f, i)

LEMMA EscIsChoose ==
  ASSUME NEW s
  PROVE  EscapesOf(s) = (CHOOSE f : IsSelF(s, f))[Len(s)]
BY DEF EscapesOf, IsSelF, SelF

(* The recursion has a solution: by induction on the number of positions. *)
LEMMA SelExists ==
  ASSUME NEW S, NEW s \in Seq(S)
  PROVE  \E f : IsSelF(s, f)
<1>1. \A n \in 0 .. Len(s) : \E f : PartSel(s, n, f)
  <2>0. PICK Bad : Bad = {n \in 0 .. Len(s) : ~\E f : PartSel(s, n, f)}
    BY Zenon
  <2>. SUFFICES ASSUME Bad # {} PROVE FALSE
    BY <2>0, Zenon
  <2>1. PICK n \in Bad : \A m \in Bad : ~(m < n)
    <3>. Bad \in SUBSET Nat
      BY <2>0
    <3>. QED BY NatMin
  <2>2. CASE n = 0
    <3>1. PartSel(s, 0, [i \in 0 .. 0 |-> << >>])
      BY DEF PartSel, SelF
    <3>. QED BY <2>0, <2>1, <2>2, <3>1
  <2>3. CASE n # 0
    <3>1. n - 1 \in 0 .. Len(s) /\ n - 1 \notin Bad /\ n \in 1 .. Len(s)
      BY <2>0, <2>1, <2>3
    <3>2. PICK g : PartSel(s, n - 1, g)
      BY <2>0, <3>1
    (* g extended by position n.                                           *)
    <3>. DEFINE h == [i \in 0 .. n |-> IF i < n THEN g[i] ELSE SelF(s, g, n)]
    <3>3. \A i \in 0 .. n : SelF(s, h, i) = SelF(s, g, i)
      <4>1. \A i \in 1 .. n : h[i - 1] = g[i - 1]
        BY <3>1
      <4>. QED BY <4>1 DEF SelF
    <3>4. \A i \in 0 .. n : h[i] = SelF(s, h, i)
      <4>1. SUFFICES ASSUME NEW i \in 0 .. n PROVE h[i] = SelF(s, h, i)
        OBVIOUS
      <4>2. CASE i < n
        <5>1. h[i] = g[i] /\ i \in 0 .. n - 1
          BY <3>1, <4>2
        <5>2. g[i] = SelF(s, g, i)
          BY <3>2, <5>1 DEF PartSel
        <5>. QED BY <3>3, <5>1, <5>2
      <4>3. CASE i = n
        BY <3>3, <4>3
      <4>. QED BY <4>2, <4>3, <3>1
    <3>5. PartSel(s, n, h)
      BY <3>4 DEF PartSel
    <3>. QED BY <2>0, <2>1, <3>5
  <2>. QED BY <2>2, <2>3
<1>2. PICK f : PartSel(s, Len(s), f)
  BY <1>1
<1>. QED
  BY <1>2 DEF PartSel, IsSelF

LEMMA SelChosen ==
  ASSUME NEW S, NEW s \in Seq(S)
  PROVE  IsSelF(s, CHOOSE f : IsSelF(s, f))
BY SelExists

(* Appending x does not change the escapes of the first Len(s) positions. *)
LEMMA SelPrefix ==
  ASSUME NEW S, NEW s \in Seq(S), NEW x, NEW f, NEW g,
         IsSelF(s, f), IsSelF(Append(s, x), g)
  PROVE  \A i \in 0 .. Len(s) : f[i] = g[i]
<1>0. PICK Bad : Bad = {i \in 0 .. Len(s) : f[i] # g[i]}
  BY Zenon
<1>. SUFFICES ASSUME Bad # {} PROVE FALSE
  BY <1>0, Zenon
<1>1. PICK i \in Bad : \A m \in Bad : ~(m < i)
  <2>. Bad \in SUBSET Nat
    BY <1>0
  <2>. QED BY NatMin
<1>2. i \in 0 .. Len(s) /\ f[i] # g[i]
  BY <1>0, <1>1
<1>3. f[i] = SelF(s, f, i)
  BY <1>2, Zenon DEF IsSelF
<1>4. g[i] = SelF(Append(s, x), g, i)
  <2>. i \in 0 .. Len(Append(s, x))
    BY <1>2
  <2>. QED BY Zenon DEF IsSelF
<1>5. CASE i = 0
  BY <1>2, <1>3, <1>4, <1>5 DEF SelF
<1>6. CASE i # 0
  <2>1. f[i - 1] = g[i - 1]
    BY <1>0, <1>1, <1>2, <1>6
  <2>2. Append(s, x)[i] = s[i]
    BY <1>2, <1>6
  <2>. QED BY <1>2, <1>3, <1>4, <1>6, <2>1, <2>2 DEF SelF
<1>. QED BY <1>5, <1>6

(* One more string: an escape is appended to the escapes, any other       *)
(* string leaves them as they are.                                         *)
LEMMA EscAppend ==
  ASSUME NEW S, NEW s \in Seq(S), NEW x
  PROVE  EscapesOf(Append(s, x))
           = IF x.tag = "esc" THEN Append(EscapesOf(s), x) ELSE EscapesOf(s)
<1>0. PICK t : t = Append(s, x)
  OBVIOUS
<1>1. t \in Seq(S \cup {x}) /\ Len(t) = Len(s) + 1 /\ t[Len(s) + 1] = x
  BY <1>0
<1>2. PICK f : f = CHOOSE c : IsSelF(s, c)
  OBVIOUS
<1>3. PICK g : g = CHOOSE c : IsSelF(t, c)
  OBVIOUS
<1>4. IsSelF(s, f) /\ IsSelF(t, g)
  BY <1>1, <1>2, <1>3, SelChosen
<1>5. f[Len(s)] = g[Len(s)]
  BY <1>0, <1>4, SelPrefix
<1>6. g[Len(s) + 1] = IF x.tag = "esc" THEN Append(g[Len(s)], x) ELSE g[Len(s)]
  <2>1. Len(s) + 1 \in 0 .. Len(t)
    BY <1>1
  <2>2. g[Len(s) + 1] = SelF(t, g, Len(s) + 1)
    BY <1>4, <2>1, Zenon DEF IsSelF
  <2>3. SelF(t, g, Len(s) + 1)
          = IF t[Len(s) + 1].tag = "esc" THEN Append(g[Len(s)], t[Len(s) + 1]) ELSE g[Len(s)]
    BY DEF SelF
  <2>. QED BY <1>1, <2>2, <2>3
<1>7. EscapesOf(s) = f[Len(s)] /\ EscapesOf(t) = g[Len(t)]
  BY <1>2, <1>3, EscIsChoose
<1>. QED
  BY <1>0, <1>1, <1>5, <1>6, <1>7

(* The same, with the string written after s as a one-element sequence.   *)
LEMMA EscConcat ==
  ASSUME NEW S, NEW s \in Seq(S), NEW x
  PROVE  EscapesOf(s \o <<x>>)
           = IF x.tag = "esc" THEN Append(EscapesOf(s), x) ELSE EscapesOf(s)
<1>1. s \o <<x>> = Append(s, x)
  OBVIOUS
<1>. QED BY <1>1, EscAppend

LEMMA EscEmpty == EscapesOf(<< >>) = << >>
<1>0. << >> \in Seq({})
  OBVIOUS
<1>1. IsSelF(<< >>, CHOOSE f : IsSelF(<< >>, f))
  BY <1>0, SelChosen
<1>. QED
  BY <1>1, EscIsChoose DEF IsSelF, SelF


(* The strengthening of EscapesSpellInput that the loop keeps: the        *)
(* escapes written so far spell the bytes written so far, and the script  *)
(* is done only once every byte is written.                                *)
EscInv ==
  /\ Escapes = [i \in 1 .. pos |-> Escape(data[i])]
  /\ pc = "done" => pos = Len(data)

(* While the loop runs, the output is a sequence of strings.              *)
LEMMA OutSeq ==
  ASSUME IInv, pc = "loop"
  PROVE  out \in Seq(TokSet(data))
<1>1. data \in Seq(Bytes) /\ pos \in Nat
  BY DataSeq DEF IInv
<1>2. Abs!Body(data, pos) \in Seq(TokSet(data))
  BY <1>1, BodyIsSeq
<1>3. <<W("header")>> \in Seq(TokSet(data))
  BY DEF TokSet
<1>. QED
  BY <1>2, <1>3 DEF IInv

(* The header holds no escape.                                             *)
LEMMA InitEsc == Init => EscInv
<1>. SUFFICES ASSUME Init PROVE EscInv
  OBVIOUS
<1>1. out = << >> \o <<W("header")>>
  BY TupleConcat DEF Init
<1>2. << >> \in Seq({}) /\ W("header").tag # "esc"
  BY DEF W
<1>3. EscapesOf(<< >> \o <<W("header")>>) = EscapesOf(<< >>)
  BY <1>2, EscConcat
<1>. QED
  BY <1>1, <1>3, EscEmpty DEF Init, EscInv, Escapes

(* One iteration writes the escape of byte pos + 1 and, around it, only  *)
(* strings that are not escapes.                                           *)
LEMMA WriteByteEsc == IInv /\ EscInv /\ WriteByte => EscInv'
<1>. SUFFICES ASSUME IInv, EscInv, WriteByte PROVE EscInv'
  OBVIOUS
<1>1. /\ data \in Seq(Bytes) /\ pos \in Nat /\ pos < Len(data)
      /\ pc = "loop" /\ pc' = "loop" /\ data' = data /\ pos' = pos + 1
  BY DataSeq DEF IInv, WriteByte
<1>2. out \in Seq(TokSet(data))
  BY <1>1, OutSeq
<1>3. PICK e : e = Escape(data[pos + 1])
  OBVIOUS
<1>4. e \in TokSet(data) /\ e.tag = "esc"
  <2>1. pos + 1 \in Nat
    BY <1>1
  <2>2. e \in TokSet(data)
    BY <1>3, <2>1 DEF TokSet
  <2>3. e.tag = "esc"
    BY <1>3 DEF Escape
  <2>. QED BY <2>2, <2>3
<1>5. out' = ((out \o Opened(index)) \o <<e>>) \o Closed(index)
  BY <1>3 DEF WriteByte, Opened, Closed
<1>6. PICK o1 : o1 = out \o Opened(index)
  OBVIOUS
<1>7. o1 \in Seq(TokSet(data)) /\ EscapesOf(o1) = EscapesOf(out)
  <2>1. CASE index = 0
    <3>1. o1 = out \o <<W("open")>> /\ W("open") \in TokSet(data) /\ W("open").tag # "esc"
      BY <1>6, <2>1 DEF Opened, TokSet, W
    <3>. QED BY <1>2, <3>1, EscConcat
  <2>2. CASE index # 0
    BY <1>2, <1>6, <2>2 DEF Opened
  <2>. QED BY <2>1, <2>2
<1>8. PICK o2 : o2 = o1 \o <<e>>
  OBVIOUS
<1>9. o2 \in Seq(TokSet(data)) /\ EscapesOf(o2) = Append(EscapesOf(o1), e)
  BY <1>4, <1>7, <1>8, EscConcat
<1>10. EscapesOf(out') = EscapesOf(o2)
  <2>1. CASE index + 1 = Chunk
    <3>1. out' = o2 \o <<W("close")>> /\ W("close").tag # "esc"
      BY <1>5, <1>6, <1>8, <2>1 DEF Closed, W
    <3>. QED BY <1>9, <3>1, EscConcat
  <2>2. CASE index + 1 # Chunk
    BY <1>5, <1>6, <1>8, <1>9, <2>2 DEF Closed
  <2>. QED BY <2>1, <2>2
<1>11. Append([i \in 1 .. pos |-> Escape(data[i])], e) = [i \in 1 .. pos + 1 |-> Escape(data[i])]
  BY <1>1, <1>3
<1>. QED
  BY <1>1, <1>7, <1>9, <1>10, <1>11 DEF EscInv, Escapes

(* The terminator and the footer are not escapes, and the loop ends only  *)
(* at the end of the input.                                                *)
LEMMA FinishEsc == IInv /\ EscInv /\ Finish => EscInv'
<1>. SUFFICES ASSUME IInv, EscInv, Finish PROVE EscInv'
  OBVIOUS
<1>1. /\ pc = "loop" /\ pos = Len(data) /\ pc' = "done"
      /\ pos' = pos /\ data' = data
  BY DEF Finish
<1>2. out \in Seq(TokSet(data))
  BY <1>1, OutSeq
<1>3. PICK T : T = IF index # 0 THEN W("closeSemi") ELSE W("semi")
  OBVIOUS
<1>4. T \in TokSet(data) /\ T.tag # "esc" /\ W("footer").tag # "esc"
  BY <1>3 DEF TokSet, W
<1>5. out' = (out \o <<T>>) \o <<W("footer")>>
  BY <1>3 DEF Finish
<1>6. PICK o1 : o1 = out \o <<T>>
  OBVIOUS
<1>7. o1 \in Seq(TokSet(data)) /\ EscapesOf(o1) = EscapesOf(out)
  BY <1>2, <1>4, <1>6, EscConcat
<1>8. EscapesOf(out') = EscapesOf(o1)
  BY <1>4, <1>5, <1>6, <1>7, EscConcat
<1>. QED
  BY <1>1, <1>7, <1>8 DEF EscInv, Escapes

(* Once embed.py has finished, the escapes it wrote, read in order, are   *)
(* those of the input bytes, every one and no other, for every input      *)
(* length and every set of byte values: the property EscapesSpellInput   *)
(* the embed run checks.                                                   *)
THEOREM EmbedEscapes == Spec => []EscapesSpellInput
<1>1. Init => IInv /\ EscInv
  BY InitIInv, InitEsc
<1>2. IInv /\ EscInv /\ [Next]_evars => IInv' /\ EscInv'
  <2>. SUFFICES ASSUME IInv, EscInv, [Next]_evars PROVE IInv' /\ EscInv'
    OBVIOUS
  <2>1. IInv'
    BY NextIInv
  <2>2. CASE WriteByte
    BY <2>1, <2>2, WriteByteEsc
  <2>3. CASE Finish
    BY <2>1, <2>3, FinishEsc
  <2>4. CASE UNCHANGED evars
    BY <2>1, <2>4 DEF EscInv, Escapes, evars
  <2>. QED
    BY <2>2, <2>3, <2>4 DEF Next
<1>3. EscInv => EscapesSpellInput
  BY DEF EscInv, EscapesSpellInput
<1>. QED
  BY <1>1, <1>2, <1>3, PTL DEF Spec

=============================================================================

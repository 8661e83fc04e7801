--------------------------- MODULE ProfilingProofs ---------------------------
(***************************************************************************)
(* Proofs about the profiling report (Profiling).  The three properties   *)
(* the runs check hold of every dump that is well formed the way          *)
(* oclaet.py, event.py and kernel.py take for granted: the dump lies in  *)
(* profiling/, every block has event type 1 or 2, the cores of a block   *)
(* are numbered 0 .. n-1 once each, a kernel reports the same number of  *)
(* cores in each block, and two blocks of one kernel with the same first *)
(* event have the same events.  The runs MC_Profiling_stale,              *)
(* MC_Profiling_type0 and MC_Profiling_dedup show what happens when the  *)
(* first, the second and the last of these fail.                          *)
(*                                                                         *)
(* remove_duplicate_events and FlattenSeq are recursive functions; the    *)
(* facts the proof needs of them are proved by induction on the position  *)
(* (LeastElement).                                                         *)
(***************************************************************************)
EXTENDS Profiling, SequenceTheorems, FiniteSetTheorems, LeastElement, TLAPS

-----------------------------------------------------------------------------
(***************************************************************************)
(* remove_duplicate_events keeps events of its argument, and for every    *)
(* event of its argument an event with the same first name.               *)
(***************************************************************************)

(* The recursion that defines the loop of remove_duplicate_events(evs),   *)
(* for a candidate function f.                                             *)
DupF(evs, f, i) ==
  IF i = 0 THEN [kept |-> << >>, seen |-> {}]
  ELSE IF Name1(evs[i]) \in f[i - 1].seen THEN f[i - 1]
  ELSE [kept |-> Append(f[i - 1].kept, evs[i]),
        seen |-> f[i - 1].seen \cup {Name1(evs[i])}]

IsDup(evs, f) == f = [i \in 0 .. Len(evs) |-> DupF(evs, f, i)]

(* f satisfies the recursion on the first n + 1 positions.                 *)
PartDup(evs, n, f) == f = [i \in 0 .. n |-> f[i]] /\ \A i \in 0 .. n : f[i] = DupF(evs, f, i)

(* What the loop has after its first n iterations: events among the first *)
(* n, whose first names are the set 'events', which holds the first name *)
(* of each of the first n.                                                 *)
DupOK(S, evs, r, n) ==
  /\ r.kept \in Seq(S)
  /\ \A m \in 1 .. Len(r.kept) : \E j \in 1 .. n : r.kept[m] = evs[j]
  /\ \A x \in r.seen : \E m \in 1 .. Len(r.kept) : Name1(r.kept[m]) = x
  /\ \A j \in 1 .. n : Name1(evs[j]) \in r.seen

LEMMA DupIsChoose ==
  ASSUME NEW evs
  PROVE  remove_duplicate_events(evs) = (CHOOSE f : IsDup(evs, f))[Len(evs)].kept
BY DEF remove_duplicate_events, IsDup, DupF

LEMMA DupExists ==
  ASSUME NEW S, NEW evs \in Seq(S)
  PROVE  \E f : IsDup(evs, f)
<1>1. \A n \in 0 .. Len(evs) : \E f : PartDup(evs, n, f)
  <2>0. PICK Bad : Bad = {n \in 0 .. Len(evs) : ~\E f : PartDup(evs, n, f)}
    BY Zenon
  <2>. SUFFICES ASSUME Bad # {} PROVE FALSE
    BY <2>0, Zenon
  <2>1. PICK n \in Bad : \A m \in Bad : ~(m < n)
    <3>. Bad \in SUBSET Nat
      BY <2>0
    <3>. QED BY NatMin
  <2>2. CASE n = 0
    <3>1. PartDup(evs, 0, [i \in 0 .. 0 |-> [kept |-> << >>, seen |-> {}]])
      BY DEF PartDup, DupF
    <3>. QED BY <2>0, <2>1, <2>2, <3>1
  <2>3. CASE n # 0
    <3>1. n - 1 \in 0 .. Len(evs) /\ n - 1 \notin Bad /\ n \in 1 .. Len(evs)
      BY <2>0, <2>1, <2>3
    <3>2. PICK g : PartDup(evs, n - 1, g)
      BY <2>0, <3>1
    (* g extended by position n.                                           *)
    <3>. DEFINE h == [i \in 0 .. n |-> IF i < n THEN g[i] ELSE DupF(evs, g, n)]
    <3>3. \A i \in 0 .. n : DupF(evs, h, i) = DupF(evs, g, i)
      <4>. SUFFICES ASSUME NEW i \in 0 .. n PROVE DupF(evs, h, i) = DupF(evs, g, i)
        OBVIOUS
      <4>1. CASE i = 0
        BY <4>1 DEF DupF
      <4>2. CASE i # 0
        <5>1. h[i - 1] = g[i - 1]
          BY <3>1, <4>2
        <5>. QED BY <4>2, <5>1, Zenon DEF DupF
      <4>. QED BY <4>1, <4>2
    <3>4. \A i \in 0 .. n : h[i] = DupF(evs, h, i)
      <4>1. SUFFICES ASSUME NEW i \in 0 .. n PROVE h[i] = DupF(evs, h, i)
        OBVIOUS
      <4>2. CASE i < n
        <5>1. h[i] = g[i] /\ i \in 0 .. n - 1
          BY <3>1, <4>2
        <5>2. g[i] = DupF(evs, g, i)
          BY <3>2, <5>1 DEF PartDup
        <5>. QED BY <3>3, <5>1, <5>2
      <4>3. CASE i = n
        BY <3>3, <4>3
      <4>. QED BY <4>2, <4>3, <3>1
    <3>5. PartDup(evs, n, h)
      BY <3>4 DEF PartDup
    <3>. QED BY <2>0, <2>1, <3>5
  <2>. QED BY <2>2, <2>3
<1>2. PICK f : PartDup(evs, Len(evs), f)
  BY <1>1
<1>. QED
  BY <1>2 DEF PartDup, IsDup

(* Every iteration of the loop keeps DupOK.                                *)
LEMMA DupLoop ==
  ASSUME NEW S, NEW evs \in Seq(S), NEW f, IsDup(evs, f)
  PROVE  \A n \in 0 .. Len(evs) : DupOK(S, evs, f[n], n)
<1>0. PICK Bad : Bad = {n \in 0 .. Len(evs) : ~DupOK(S, evs, f[n], n)}
  BY Zenon
<1>. SUFFICES ASSUME Bad # {} PROVE FALSE
  BY <1>0, Zenon
<1>1. PICK n \in Bad : \A m \in Bad : ~(m < n)
  <2>. Bad \in SUBSET Nat
    BY <1>0
  <2>. QED BY NatMin
<1>2. n \in 0 .. Len(evs) /\ ~DupOK(S, evs, f[n], n)
  BY <1>0, <1>1
<1>3. f[n] = DupF(evs, f, n)
  BY <1>2, Zenon DEF IsDup
<1>4. CASE n = 0
  BY <1>2, <1>3, <1>4 DEF DupF, DupOK
<1>5. CASE n # 0
  <2>1. n - 1 \in 0 .. Len(evs) /\ n \in 1 .. Len(evs)
    BY <1>2, <1>5
  <2>2. DupOK(S, evs, f[n - 1], n - 1)
    BY <1>0, <1>1, <2>1
  <2>3. PICK p : p = f[n - 1]
    OBVIOUS
  <2>4. PICK x : x = Name1(evs[n])
    OBVIOUS
  <2>5. /\ p.kept \in Seq(S)
        /\ \A m \in 1 .. Len(p.kept) : \E j \in 1 .. n - 1 : p.kept[m] = evs[j]
        /\ \A y \in p.seen : \E m \in 1 .. Len(p.kept) : Name1(p.kept[m]) = y
        /\ \A j \in 1 .. n - 1 : Name1(evs[j]) \in p.seen
    BY <2>2, <2>3, Zenon DEF DupOK
  <2>6. \A j \in 1 .. n : j \in 1 .. n - 1 \/ j = n
    BY <2>1
  <2>7. CASE x \in p.seen
    <3>1. f[n] = p
      BY <1>3, <1>5, <2>3, <2>4, <2>7 DEF DupF
    <3>2. \A m \in 1 .. Len(p.kept) : \E j \in 1 .. n : p.kept[m] = evs[j]
      <4>. SUFFICES ASSUME NEW m \in 1 .. Len(p.kept) PROVE \E j \in 1 .. n : p.kept[m] = evs[j]
        OBVIOUS
      <4>1. PICK j \in 1 .. n - 1 : p.kept[m] = evs[j]
        BY <2>5
      <4>. QED BY <4>1, <2>1
    <3>3. \A j \in 1 .. n : Name1(evs[j]) \in p.seen
      BY <2>4, <2>5, <2>6, <2>7
    <3>. QED BY <1>2, <2>5, <3>1, <3>2, <3>3, Zenon DEF DupOK
  <2>8. CASE x \notin p.seen
    <3>. DEFINE q == Append(p.kept, evs[n])
    <3>1. f[n] = [kept |-> q, seen |-> p.seen \cup {x}]
      BY <1>3, <1>5, <2>3, <2>4, <2>8 DEF DupF
    <3>2. evs[n] \in S
      BY <2>1
    <3>3. q \in Seq(S) /\ Len(q) = Len(p.kept) + 1
      BY <2>5, <3>2
    <3>4. \A m \in 1 .. Len(p.kept) : q[m] = p.kept[m]
      BY <2>5, <3>2
    <3>5. q[Len(p.kept) + 1] = evs[n]
      BY <2>5, <3>2
    <3>6. \A m \in 1 .. Len(q) : \E j \in 1 .. n : q[m] = evs[j]
      <4>. SUFFICES ASSUME NEW m \in 1 .. Len(q) PROVE \E j \in 1 .. n : q[m] = evs[j]
        OBVIOUS
      <4>1. CASE m \in 1 .. Len(p.kept)
        <5>1. PICK j \in 1 .. n - 1 : p.kept[m] = evs[j]
          BY <2>5, <4>1
        <5>. QED BY <3>4, <4>1, <5>1, <2>1
      <4>2. CASE m = Len(p.kept) + 1
        BY <3>5, <4>2, <2>1
      <4>. QED BY <2>5, <3>3, <4>1, <4>2
    <3>7. \A y \in p.seen \cup {x} : \E m \in 1 .. Len(q) : Name1(q[m]) = y
      <4>1. ASSUME NEW y \in p.seen PROVE \E m \in 1 .. Len(q) : Name1(q[m]) = y
        <5>1. PICK m \in 1 .. Len(p.kept) : Name1(p.kept[m]) = y
          BY <2>5
        <5>2. m \in 1 .. Len(q) /\ q[m] = p.kept[m]
          BY <2>5, <3>3, <3>4
        <5>. QED BY <5>1, <5>2
      <4>2. Len(q) \in 1 .. Len(q) /\ q[Len(q)] = evs[n]
        BY <2>5, <3>3, <3>5
      <4>3. Name1(q[Len(q)]) = x
        BY <2>4, <4>2
      <4>. QED BY <4>1, <4>2, <4>3
    <3>8. \A j \in 1 .. n : Name1(evs[j]) \in p.seen \cup {x}
      BY <2>4, <2>5, <2>6
    <3>9. f[n].kept = q /\ f[n].seen = p.seen \cup {x}
      BY <3>1
    <3>10. DupOK(S, evs, f[n], n)
      BY <3>3, <3>6, <3>7, <3>8, <3>9, Zenon DEF DupOK
    <3>. QED BY <1>2, <3>10
  <2>. QED BY <2>7, <2>8
<1>. QED BY <1>4, <1>5

(* The events remove_duplicate_events keeps are events of its argument,  *)
(* and every event of the argument has a kept one with its first name.    *)
LEMMA DedupFacts ==
  ASSUME NEW S, NEW evs \in Seq(S)
  PROVE  /\ remove_duplicate_events(evs) \in Seq(S)
         /\ \A m \in 1 .. Len(remove_duplicate_events(evs)) :
              \E j \in 1 .. Len(evs) : remove_duplicate_events(evs)[m] = evs[j]
         /\ \A j \in 1 .. Len(evs) :
              \E m \in 1 .. Len(remove_duplicate_events(evs)) :
                Name1(remove_duplicate_events(evs)[m]) = Name1(evs[j])
<1>1. PICK f : f = CHOOSE c : IsDup(evs, c)
  OBVIOUS
<1>2. IsDup(evs, f)
  BY <1>1, DupExists
<1>3. remove_duplicate_events(evs) = f[Len(evs)].kept
  BY <1>1, DupIsChoose
<1>4. DupOK(S, evs, f[Len(evs)], Len(evs))
  BY <1>2, DupLoop
<1>5. \A j \in 1 .. Len(evs) :
        \E m \in 1 .. Len(f[Len(evs)].kept) : Name1(f[Len(evs)].kept[m]) = Name1(evs[j])
  BY <1>4, Zenon DEF DupOK
<1>. QED BY <1>3, <1>4, <1>5 DEF DupOK

-----------------------------------------------------------------------------
(***************************************************************************)
(* FlattenSeq of a sequence of sequences all empty but one is that one:   *)
(* update_event_core_data appends to a core's row the values of the one  *)
(* entry of the event with that core_number.                               *)
(***************************************************************************)

(* The recursion that defines FlattenSeq(s), for a candidate function f.  *)
FlatF(s, f, j) == IF j = 1 THEN s[j] ELSE f[j - 1] \o s[j]

IsFlat(s, f) == f = [j \in 1 .. Len(s) |-> FlatF(s, f, j)]

PartFlat(s, n, f) == f = [j \in 1 .. n |-> f[j]] /\ \A j \in 1 .. n : f[j] = FlatF(s, f, j)

LEMMA FlatIsChoose ==
  ASSUME NEW s, Len(s) # 0
  PROVE  FlattenSeq(s) = (CHOOSE f : IsFlat(s, f))[Len(s)]
BY DEF FlattenSeq, IsFlat, FlatF

LEMMA FlatExists ==
  ASSUME NEW S, NEW s \in Seq(S), Len(s) # 0
  PROVE  \E f : IsFlat(s, f)
<1>1. \A n \in 1 .. Len(s) : \E f : PartFlat(s, n, f)
  <2>0. PICK Bad : Bad = {n \in 1 .. Len(s) : ~\E f : PartFlat(s, n, f)}
    BY Zenon
  <2>. SUFFICES ASSUME Bad # {} PROVE FALSE
    BY <2>0, Zenon
  <2>1. PICK n \in Bad : \A m \in Bad : ~(m < n)
    <3>. Bad \in SUBSET Nat
      BY <2>0
    <3>. QED BY NatMin
  <2>2. CASE n = 1
    <3>1. PartFlat(s, 1, [j \in 1 .. 1 |-> s[1]])
      BY DEF PartFlat, FlatF
    <3>. QED BY <2>0, <2>1, <2>2, <3>1
  <2>3. CASE n # 1
    <3>1. n - 1 \in 1 .. Len(s) /\ n - 1 \notin Bad /\ n \in 2 .. Len(s)
      BY <2>0, <2>1, <2>3
    <3>2. PICK g : PartFlat(s, n - 1, g)
      BY <2>0, <3>1
    <3>. DEFINE h == [j \in 1 .. n |-> IF j < n THEN g[j] ELSE FlatF(s, g, n)]
    <3>3. \A j \in 1 .. n : FlatF(s, h, j) = FlatF(s, g, j)
      <4>. SUFFICES ASSUME NEW j \in 1 .. n PROVE FlatF(s, h, j) = FlatF(s, g, j)
        OBVIOUS
      <4>1. CASE j = 1
        BY <4>1 DEF FlatF
      <4>2. CASE j # 1
        <5>1. h[j - 1] = g[j - 1]
          BY <3>1, <4>2
        <5>2. FlatF(s, h, j) = h[j - 1] \o s[j] /\ FlatF(s, g, j) = g[j - 1] \o s[j]
          BY <4>2 DEF FlatF
        <5>. QED BY <5>1, <5>2, Zenon
      <4>. QED BY <4>1, <4>2
    <3>4. \A j \in 1 .. n : h[j] = FlatF(s, h, j)
      <4>1. SUFFICES ASSUME NEW j \in 1 .. n PROVE h[j] = FlatF(s, h, j)
        OBVIOUS
      <4>2. CASE j < n
        <5>1. h[j] = g[j] /\ j \in 1 .. n - 1
          BY <3>1, <4>2
        <5>2. g[j] = FlatF(s, g, j)
          BY <3>2, <5>1 DEF PartFlat
        <5>. QED BY <3>3, <5>1, <5>2
      <4>3. CASE j = n
        BY <3>3, <4>3
      <4>. QED BY <4>2, <4>3, <3>1
    <3>5. PartFlat(s, n, h)
      BY <3>4 DEF PartFlat
    <3>. QED BY <2>0, <2>1, <3>5
  <2>. QED BY <2>2, <2>3
<1>2. PICK f : PartFlat(s, Len(s), f)
  BY <1>1
<1>. QED
  BY <1>2 DEF PartFlat, IsFlat

LEMMA FlatLoop ==
  ASSUME NEW V, NEW s \in Seq(Seq(V)), NEW i \in 1 .. Len(s),
         \A j \in 1 .. Len(s) : j # i => s[j] = << >>,
         NEW f, IsFlat(s, f)
  PROVE  \A n \in 1 .. Len(s) : f[n] = IF n >= i THEN s[i] ELSE << >>
<1>0. PICK Bad : Bad = {n \in 1 .. Len(s) : f[n] # IF n >= i THEN s[i] ELSE << >>}
  BY Zenon
<1>. SUFFICES ASSUME Bad # {} PROVE FALSE
  BY <1>0, Zenon
<1>1. PICK n \in Bad : \A m \in Bad : ~(m < n)
  <2>. Bad \in SUBSET Nat
    BY <1>0
  <2>. QED BY NatMin
<1>2. n \in 1 .. Len(s) /\ f[n] # IF n >= i THEN s[i] ELSE << >>
  BY <1>0, <1>1
<1>3. f[n] = FlatF(s, f, n)
  BY <1>2, Zenon DEF IsFlat
<1>4. s[i] \in Seq(V)
  OBVIOUS
<1>5. CASE n = 1
  BY <1>2, <1>3, <1>5 DEF FlatF
<1>6. CASE n # 1
  <2>1. n - 1 \in 1 .. Len(s) /\ f[n - 1] = IF n - 1 >= i THEN s[i] ELSE << >>
    BY <1>0, <1>1, <1>2, <1>6
  <2>2. f[n] = f[n - 1] \o s[n]
    BY <1>3, <1>6 DEF FlatF
  <2>3. CASE n = i
    <3>1. f[n - 1] = << >>
      BY <2>1, <2>3
    <3>2. << >> \o s[i] = s[i]
      BY <1>4
    <3>. QED BY <1>2, <2>2, <2>3, <3>1, <3>2
  <2>4. CASE n > i
    <3>1. f[n - 1] = s[i] /\ s[n] = << >>
      BY <1>2, <2>1, <2>4
    <3>2. s[i] \o << >> = s[i]
      BY <1>4
    <3>. QED BY <1>2, <2>2, <2>4, <3>1, <3>2
  <2>5. CASE n < i
    <3>1. f[n - 1] = << >> /\ s[n] = << >>
      BY <1>2, <2>1, <2>5
    <3>2. << >> \o << >> = << >>
      OBVIOUS
    <3>. QED BY <1>2, <2>2, <2>5, <3>1, <3>2
  <2>. QED BY <1>2, <2>3, <2>4, <2>5
<1>. QED BY <1>5, <1>6

LEMMA FlattenOne ==
  ASSUME NEW V, NEW s \in Seq(Seq(V)), NEW i \in 1 .. Len(s),
         \A j \in 1 .. Len(s) : j # i => s[j] = << >>
  PROVE  FlattenSeq(s) = s[i]
<1>1. Len(s) # 0
  OBVIOUS
<1>2. PICK f : f = CHOOSE c : IsFlat(s, c)
  OBVIOUS
<1>3. IsFlat(s, f)
  BY <1>1, <1>2, FlatExists
<1>4. FlattenSeq(s) = f[Len(s)]
  BY <1>1, <1>2, FlatIsChoose
<1>5. \A n \in 1 .. Len(s) : f[n] = IF n >= i THEN s[i] ELSE << >>
  BY <1>3, FlatLoop
<1>6. f[Len(s)] = s[i]
  <2>1. Len(s) \in 1 .. Len(s) /\ Len(s) >= i
    OBVIOUS
  <2>. QED BY <1>5, <2>1
<1>. QED BY <1>4, <1>6

-----------------------------------------------------------------------------
(***************************************************************************)
(* The dumps the report is written for.  The dump lies in profiling/, so  *)
(* cleanup_files empties the table file; a block's cores form a list; its *)
(* event type is 1 or 2 (the branches of update_event_names); its cores   *)
(* are numbered 0 .. n-1, once each (process_core_data takes the number   *)
(* from the line); every block of a kernel has as many cores; and blocks  *)
(* of a kernel with the same first event have the same second event.      *)
(***************************************************************************)
WellFormedDump ==
  /\ "other" \notin DumpDirs
  /\ \E C : \A e \in Events : e.cores \in Seq(C)
  /\ \A e \in Events :
       /\ e.type \in {1, 2}
       /\ \A i \in 1 .. Len(e.cores) : e.cores[i].num < Len(e.cores)
       /\ \A c \in 0 .. Len(e.cores) - 1 : \E i \in 1 .. Len(e.cores) : e.cores[i].num = c
       /\ \A i, j \in 1 .. Len(e.cores) : i # j => e.cores[i].num # e.cores[j].num
  /\ \A e, f \in Events : e.kernel = f.kernel => Len(e.cores) = Len(f.cores)
  /\ \A e, f \in Events : e.kernel = f.kernel /\ Name1(e) = Name1(f) => NamesOf(e) = NamesOf(f)

(* The values of the table: the counters of the cores of the dump.        *)
CoreRecs == CHOOSE C : \A e \in Events : e.cores \in Seq(C)
ValSet == {d.c0 : d \in CoreRecs} \cup {d.c1 : d \in CoreRecs}
NameSet == {Name1(e) : e \in Events} \cup {Name2(e) : e \in Events}
HtmlRow == [kernel : Kernels, name : NameSet,
            cells : UNION {[0 .. w - 1 -> ValSet] : w \in Nat}]

TypeInv ==
  /\ by_kernel \in [Kernels -> Seq(Events)]
  /\ opt_t \in BOOLEAN /\ opt_g \in BOOLEAN
  /\ phase \in {"cleanup", "mark", "analyze", "matrix", "done", "exited", "crashed"}
  /\ kernel_list \in Seq(Kernels)
  /\ cur \in Nat /\ ei \in Nat /\ num_cores \in Nat
  /\ event_list \in Seq(Events)
  /\ names \in Seq(NameSet)
  /\ rows \in [0 .. num_cores - 1 -> Seq(ValSet)]
  /\ phase \notin {"cleanup", "exited"} => html \in Seq(HtmlRow)

(* A cell the table may show: value v under name n for core c of kernel k *)
(* is that core's counter in an event of k whose label for it is n.       *)
CellOK(k, n, c, v) ==
  \E e \in ToSet(by_kernel[k]) : \E i \in 1 .. Len(e.cores) :
    /\ e.cores[i].num = c
    /\ \/ Label(e, 0) = n /\ v = e.cores[i].c0
       \/ Label(e, 1) = n /\ v = e.cores[i].c1

NonEmptyKernels == {k \in Kernels : by_kernel[k] # << >>}

(* The matrix of the kernel being analysed: rows of equal length, one per *)
(* core, every value the counter its name labels; and the names of the   *)
(* events folded in so far are among the names.                           *)
MatrixOK ==
  LET k == kernel_list[cur + 1] IN
  /\ cur < Len(kernel_list)
  /\ event_list = remove_duplicate_events(by_kernel[k])
  /\ ei <= Len(event_list)
  /\ num_cores = Len(by_kernel[k][1].cores)
  /\ \A c \in 0 .. num_cores - 1 :
       /\ Len(rows[c]) = Len(names)
       /\ \A j \in 1 .. Len(names) : CellOK(k, names[j], c, rows[c][j])
  /\ \A m \in 1 .. ei : ToSet(NamesOf(event_list[m])) \subseteq ToSet(names)

(* The kernels analysed so far have a row in the table for every name of *)
(* every one of their events.                                              *)
Reported ==
  \A m \in 1 .. cur : \A e \in ToSet(by_kernel[kernel_list[m]]) :
    \A n \in ToSet(NamesOf(e)) :
      \E t \in 1 .. Len(html) : html[t].kernel = kernel_list[m] /\ html[t].name = n

(* Every event is listed under its own kernel.                            *)
KernelsOK == \A k \in Kernels : \A j \in 1 .. Len(by_kernel[k]) : by_kernel[k][j].kernel = k

(* The table is empty while the dump is read, and no kernel is analysed   *)
(* before the dump is read.                                                *)
MarkOK ==
  /\ phase = "mark" => html = << >>
  /\ phase \in {"cleanup", "mark"} => cur = 0

(* form_kernels has listed every kernel with events, and the analysis has *)
(* not gone past its end; when it is over, every kernel is analysed.      *)
ListOK ==
  /\ phase \in {"analyze", "matrix", "done"} =>
       ToSet(kernel_list) = NonEmptyKernels /\ cur <= Len(kernel_list)
  /\ phase = "done" /\ (opt_t \/ opt_g) => cur = Len(kernel_list)

(* The inductive invariant: TableShowsCounters and ReportCompletes, with  *)
(* what the steps that build the table need of the state before them.    *)
Inv ==
  /\ TypeInv
  /\ KernelsOK
  /\ MarkOK
  /\ TableShowsCounters
  /\ ListOK
  /\ phase = "matrix" => MatrixOK
  /\ phase \in {"analyze", "matrix", "done"} /\ opt_t => Reported
  /\ ReportCompletes

(* The cores of an event and their counters.                               *)
LEMMA CoreRecsOK ==
  ASSUME WellFormedDump
  PROVE  \A e \in Events : e.cores \in Seq(CoreRecs)
BY Zenon DEF WellFormedDump, CoreRecs

(* Two one-element sequences concatenated.                                  *)
LEMMA PairConcat ==
  ASSUME NEW a, NEW b
  PROVE  <<a>> \o <<b>> = <<a, b>>
<1>1. <<a>> \in Seq({a, b}) /\ <<b>> \in Seq({a, b}) /\ <<a, b>> \in Seq({a, b})
  OBVIOUS
<1>2. /\ <<a>> \o <<b>> \in Seq({a, b})
      /\ Len(<<a>> \o <<b>>) = 2
      /\ (<<a>> \o <<b>>)[1] = a /\ (<<a>> \o <<b>>)[2] = b
  BY <1>1, ConcatProperties
<1>3. /\ Len(<<a>> \o <<b>>) = Len(<<a, b>>)
      /\ \A i \in 1 .. Len(<<a>> \o <<b>>) : (<<a>> \o <<b>>)[i] = <<a, b>>[i]
  BY <1>2
<1>. QED
  BY <1>1, <1>2, <1>3, SeqEqual, Zenon

(* An event appends one value per name, each the counter its name labels. *)
LEMMA EventCells ==
  ASSUME NEW e \in Events, e.type \in {1, 2}, NEW d
  PROVE  /\ NamesOf(e) \in Seq(NameSet)
         /\ Len(NamesOf(e)) \in {1, 2}
         /\ Len(ValuesOf(e, d)) = Len(NamesOf(e))
         /\ ValuesOf(e, d) \in Seq({d.c0, d.c1})
         /\ \A m \in 1 .. Len(NamesOf(e)) :
              \/ Label(e, 0) = NamesOf(e)[m] /\ ValuesOf(e, d)[m] = d.c0
              \/ Label(e, 1) = NamesOf(e)[m] /\ ValuesOf(e, d)[m] = d.c1
<1>1. Name1(e) \in NameSet /\ Name2(e) \in NameSet
  BY DEF NameSet
<1>2. CASE e.type = 1
  <2>1. NamesOf(e) = <<Name1(e)>> /\ ValuesOf(e, d) = <<d.c1>>
    BY <1>2 DEF NamesOf, ValuesOf
  <2>2. Label(e, 1) = Name1(e)
    BY <1>2 DEF Label
  <2>. QED BY <1>1, <2>1, <2>2
<1>3. CASE e.type = 2 /\ e.n2 >= 0
  <2>0. NamesOf(e) = <<Name1(e)>> \o <<Name2(e)>> /\ ValuesOf(e, d) = <<d.c0>> \o <<d.c1>>
    BY <1>3 DEF NamesOf, ValuesOf
  <2>1. NamesOf(e) = <<Name1(e), Name2(e)>> /\ ValuesOf(e, d) = <<d.c0, d.c1>>
    BY <2>0, PairConcat
  <2>2. Label(e, 0) = Name1(e) /\ Label(e, 1) = Name2(e)
    BY <1>3 DEF Label
  <2>. QED BY <1>1, <2>1, <2>2
<1>4. CASE e.type = 2 /\ ~(e.n2 >= 0)
  <2>a. e.type = 2 /\ e.n2 \in Int /\ ~(e.n2 >= 0)
    BY <1>4, ProfilingAssumption
  <2>b. NamesOf(e) = <<Name1(e)>> \o << >>
    BY <2>a DEF NamesOf
  <2>c1. ValuesOf(e, d) = <<d.c0>> \o (IF e.n2 >= 0 THEN <<d.c1>> ELSE << >>)
    BY <2>a DEF ValuesOf
  <2>c2. (IF e.n2 >= 0 THEN <<d.c1>> ELSE << >>) = << >>
    BY <2>a
  <2>c. ValuesOf(e, d) = <<d.c0>> \o << >>
    BY <2>c1, <2>c2
  <2>0. NamesOf(e) = <<Name1(e)>> \o << >> /\ ValuesOf(e, d) = <<d.c0>> \o << >>
    BY <2>b, <2>c
  <2>1. NamesOf(e) = <<Name1(e)>> /\ ValuesOf(e, d) = <<d.c0>>
    BY <2>0
  <2>2. Label(e, 0) = Name1(e)
    BY <1>4 DEF Label
  <2>. QED BY <1>1, <2>1, <2>2
<1>. QED BY <1>2, <1>3, <1>4

-----------------------------------------------------------------------------
(***************************************************************************)
(* The steps that read the dump and list its kernels.                     *)
(***************************************************************************)

(* A sequence that lists the elements of a finite set once each lists    *)
(* all of them.                                                            *)
LEMMA SetToSeqsCover ==
  ASSUME NEW S, IsFiniteSet(S), NEW f \in SetToSeqs(S)
  PROVE  f \in Seq(S) /\ ToSet(f) = S
<1>1. PICK n : n = Cardinality(S)
  OBVIOUS
<1>2. n \in Nat
  BY <1>1, FS_CardinalityType
<1>3. f \in [1 .. n -> S] /\ \A i, j \in 1 .. n : i # j => f[i] # f[j]
  BY <1>1 DEF SetToSeqs
<1>4. f \in Injection(1 .. n, S)
  BY <1>3 DEF Injection, IsInjective
<1>5. Cardinality(1 .. n) = n
  BY <1>2, FS_Interval
<1>6. f \in Surjection(1 .. n, S)
  BY <1>1, <1>4, <1>5, FS_Injection
<1>7. f \in Seq(S) /\ DOMAIN f = 1 .. n
  BY <1>2, <1>3
<1>. QED BY <1>6, <1>7 DEF Surjection, ToSet

LEMMA InitInv ==
  ASSUME Init
  PROVE  Inv
<1>1. rows \in [0 .. num_cores - 1 -> Seq(ValSet)]
  <2>1. 0 .. num_cores - 1 = {} /\ rows = << >>
    BY DEF Init
  <2>. QED BY <2>1
<1>2. TypeInv
  BY <1>1 DEF Init, TypeInv
<1>3. KernelsOK
  BY DEF Init, KernelsOK
<1>. QED BY <1>2, <1>3
  DEF Init, Inv, MarkOK, TableShowsCounters, ListOK, ReportCompletes

LEMMA CleanupInv ==
  ASSUME WellFormedDump, Inv, Cleanup
  PROVE  Inv'
<1>1. UNCHANGED <<by_kernel, blocks, opt_t, opt_g, kernel_list, cur, event_list,
                  ei, num_cores, names, rows>> /\ phase = "cleanup" /\ cur = 0
  BY DEF Cleanup, Inv, MarkOK
<1>2. CASE phase' = "exited"
  BY <1>1, <1>2
  DEF Inv, TypeInv, KernelsOK, MarkOK, TableShowsCounters, ListOK, ReportCompletes
<1>3. CASE phase' = "mark"
  <2>1. html' = << >>
    <3>1. PICK d \in DumpDirs : html' = IF d = "report" THEN << >> ELSE html
      BY <1>3 DEF Cleanup
    <3>2. d = "report"
      BY <3>1, ProfilingAssumption DEF WellFormedDump
    <3>. QED BY <3>1, <3>2
  <2>2. TypeInv'
    BY <1>1, <1>3, <2>1 DEF Inv, TypeInv
  <2>. QED BY <1>1, <1>3, <2>1, <2>2
       DEF Inv, KernelsOK, MarkOK, TableShowsCounters, ListOK, ReportCompletes
<1>. QED BY <1>2, <1>3 DEF Cleanup

LEMMA MarkEventInv ==
  ASSUME Inv, MarkEvent
  PROVE  Inv'
<1>1. /\ phase = "mark" /\ html = << >> /\ cur = 0
      /\ UNCHANGED <<opt_t, opt_g, phase, kernel_list, cur, event_list, ei,
                     num_cores, names, rows, html>>
  BY DEF MarkEvent, Inv, MarkOK
<1>2. PICK e \in Events : by_kernel' = [by_kernel EXCEPT ![e.kernel] = Append(@, e)]
  BY DEF MarkEvent
<1>3. e.kernel \in Kernels /\ by_kernel \in [Kernels -> Seq(Events)]
  BY ProfilingAssumption DEF Inv, TypeInv
<1>4. by_kernel' \in [Kernels -> Seq(Events)]
  BY <1>2, <1>3
<1>5. KernelsOK'
  <2>. SUFFICES ASSUME NEW k \in Kernels, NEW j \in 1 .. Len(by_kernel'[k])
                PROVE  by_kernel'[k][j].kernel = k
    BY DEF KernelsOK
  <2>1. CASE k = e.kernel
    <3>1. by_kernel'[k] = Append(by_kernel[k], e)
      BY <1>2, <1>3, <2>1
    <3>2. CASE j \in 1 .. Len(by_kernel[k])
      BY <1>3, <3>1, <3>2 DEF Inv, KernelsOK
    <3>3. CASE j = Len(by_kernel[k]) + 1
      BY <1>3, <2>1, <3>1, <3>3
    <3>. QED BY <1>3, <3>1, <3>2, <3>3
  <2>2. CASE k # e.kernel
    BY <1>2, <1>3, <2>2 DEF Inv, KernelsOK
  <2>. QED BY <2>1, <2>2
<1>6. TypeInv'
  BY <1>1, <1>4 DEF Inv, TypeInv
<1>. QED BY <1>1, <1>5, <1>6
  DEF Inv, MarkOK, TableShowsCounters, ListOK, ReportCompletes

LEMMA FormKernelsInv ==
  ASSUME Inv, FormKernels
  PROVE  Inv'
<1>1. /\ phase = "mark" /\ html = << >> /\ cur = 0
      /\ UNCHANGED <<by_kernel, opt_t, opt_g, cur, event_list, ei,
                     num_cores, names, rows, html>>
  BY DEF FormKernels, Inv, MarkOK
<1>2. IsFiniteSet(NonEmptyKernels)
  <2>. NonEmptyKernels \subseteq Kernels
    BY DEF NonEmptyKernels
  <2>. QED BY ProfilingAssumption, FS_Subset
<1>3. kernel_list' \in Seq(NonEmptyKernels) /\ ToSet(kernel_list') = NonEmptyKernels
  <2>1. kernel_list' \in SetToSeqs(NonEmptyKernels)
    BY DEF FormKernels, NonEmptyKernels
  <2>. QED BY <1>2, <2>1, SetToSeqsCover
<1>4. NonEmptyKernels' = NonEmptyKernels
  BY <1>1 DEF NonEmptyKernels
<1>5. kernel_list' \in Seq(Kernels)
  <2>. NonEmptyKernels \subseteq Kernels
    BY DEF NonEmptyKernels
  <2>. QED BY <1>3
<1>6. phase' \in {"analyze", "done"} /\ (phase' = "done" => ~opt_t /\ ~opt_g)
  BY DEF FormKernels
<1>7. TypeInv'
  BY <1>1, <1>5, <1>6 DEF Inv, TypeInv
<1>8. ListOK'
  BY <1>1, <1>3, <1>4, <1>5, <1>6 DEF ListOK
<1>9. Reported'
  BY <1>1 DEF Reported
<1>. QED BY <1>1, <1>6, <1>7, <1>8, <1>9
  DEF Inv, KernelsOK, MarkOK, TableShowsCounters, ReportCompletes

LEMMA AnalysisDoneInv ==
  ASSUME Inv, AnalysisDone
  PROVE  Inv'
<1>1. /\ phase = "analyze" /\ phase' = "done" /\ cur = Len(kernel_list)
      /\ UNCHANGED <<by_kernel, opt_t, opt_g, kernel_list, cur, event_list,
                     ei, num_cores, names, rows, html>>
  BY DEF AnalysisDone
<1>2. TypeInv'
  BY <1>1 DEF Inv, TypeInv
<1>3. NonEmptyKernels' = NonEmptyKernels
  BY <1>1 DEF NonEmptyKernels
<1>4. Reported' = Reported
  BY <1>1 DEF Reported
<1>. QED BY <1>1, <1>2, <1>3, <1>4
  DEF Inv, KernelsOK, MarkOK, TableShowsCounters, ListOK, ReportCompletes

-----------------------------------------------------------------------------
(***************************************************************************)
(* The steps that build and print a kernel's matrix.                       *)
(***************************************************************************)

(* The kernel the analysis is at has events, and they are its own.        *)
LEMMA CurrentKernel ==
  ASSUME Inv, phase \in {"analyze", "matrix"}, cur < Len(kernel_list)
  PROVE  LET k == kernel_list[cur + 1] IN
         /\ k \in Kernels
         /\ by_kernel[k] \in Seq(Events)
         /\ Len(by_kernel[k]) >= 1
         /\ \A j \in 1 .. Len(by_kernel[k]) : by_kernel[k][j].kernel = k
<1>1. cur + 1 \in 1 .. Len(kernel_list) /\ kernel_list \in Seq(Kernels)
  BY DEF Inv, TypeInv
<1>2. kernel_list[cur + 1] \in ToSet(kernel_list)
  BY <1>1 DEF ToSet
<1>3. kernel_list[cur + 1] \in NonEmptyKernels
  BY <1>2 DEF Inv, ListOK
<1>4. by_kernel \in [Kernels -> Seq(Events)]
  BY DEF Inv, TypeInv
<1>. QED BY <1>3, <1>4 DEF NonEmptyKernels, Inv, KernelsOK

LEMMA InitMatrixInv ==
  ASSUME WellFormedDump, Inv, InitMatrix
  PROVE  Inv'
<1>. DEFINE k == kernel_list[cur + 1]
            evs == by_kernel[k]
<1>1. /\ phase = "analyze" /\ phase' = "matrix" /\ cur < Len(kernel_list)
      /\ num_cores' = Len(evs[1].cores)
      /\ rows' = [c \in 0 .. Len(evs[1].cores) - 1 |-> << >>]
      /\ event_list' = remove_duplicate_events(evs)
      /\ ei' = 0 /\ names' = << >>
      /\ UNCHANGED <<by_kernel, opt_t, opt_g, kernel_list, cur, html>>
  BY DEF InitMatrix
<1>2. /\ k \in Kernels /\ evs \in Seq(Events) /\ Len(evs) >= 1
  BY <1>1, CurrentKernel
<1>3. evs[1] \in Events
  BY <1>2
<1>4. Len(evs[1].cores) \in Nat
  BY <1>3, CoreRecsOK
<1>5. event_list' \in Seq(Events)
  BY <1>1, <1>2, DedupFacts
<1>6. TypeInv'
  <2>1. rows' \in [0 .. num_cores' - 1 -> Seq(ValSet)]
    BY <1>1
  <2>2. names' \in Seq(NameSet)
    BY <1>1
  <2>. QED BY <1>1, <1>4, <1>5, <2>1, <2>2 DEF Inv, TypeInv
<1>7. MatrixOK'
  <2>1. \A c \in 0 .. num_cores' - 1 : Len(rows'[c]) = 0
    BY <1>1
  <2>. QED BY <1>1, <1>4, <2>1 DEF MatrixOK
<1>8. /\ NonEmptyKernels' = NonEmptyKernels
      /\ Reported' = Reported
      /\ TableShowsCounters' = TableShowsCounters
  BY <1>1 DEF NonEmptyKernels, Reported, TableShowsCounters
<1>. QED BY <1>1, <1>6, <1>7, <1>8
  DEF Inv, KernelsOK, MarkOK, ListOK, ReportCompletes

(* The values an event appends for one of its cores are counters.         *)
LEMMA ValuesIn ==
  ASSUME WellFormedDump, NEW e \in Events, NEW i \in 1 .. Len(e.cores)
  PROVE  ValuesOf(e, e.cores[i]) \in Seq(ValSet)
<1>1. e.cores \in Seq(CoreRecs) /\ e.type \in {1, 2}
  BY CoreRecsOK DEF WellFormedDump
<1>2. PICK d : d = e.cores[i]
  OBVIOUS
<1>3. d \in CoreRecs
  BY <1>1, <1>2
<1>4. ValuesOf(e, d) \in Seq({d.c0, d.c1})
  BY <1>1, EventCells
<1>5. {d.c0, d.c1} \subseteq ValSet
  BY <1>3 DEF ValSet
<1>. QED BY <1>2, <1>4, <1>5, SeqMonotonic

(* update_event_core_data appends to the row of core c the values of the *)
(* one core of the event numbered c.                                       *)
LEMMA RowAppend ==
  ASSUME WellFormedDump, NEW e \in Events, NEW c \in 0 .. Len(e.cores) - 1
  PROVE  \E i \in 1 .. Len(e.cores) :
           /\ e.cores[i].num = c
           /\ FlattenSeq([j \in 1 .. Len(e.cores) |->
                IF e.cores[j].num = c THEN ValuesOf(e, e.cores[j]) ELSE << >>])
              = ValuesOf(e, e.cores[i])
<1>1. e.cores \in Seq(CoreRecs)
  BY CoreRecsOK
<1>2. /\ \A i \in 0 .. Len(e.cores) - 1 : \E j \in 1 .. Len(e.cores) : e.cores[j].num = i
      /\ \A i, j \in 1 .. Len(e.cores) : i # j => e.cores[i].num # e.cores[j].num
  BY DEF WellFormedDump
<1>3. PICK i \in 1 .. Len(e.cores) : e.cores[i].num = c
  BY <1>2
<1>. DEFINE s == [j \in 1 .. Len(e.cores) |->
                    IF e.cores[j].num = c THEN ValuesOf(e, e.cores[j]) ELSE << >>]
<1>4. s \in Seq(Seq(ValSet)) /\ Len(s) = Len(e.cores)
  <2>1. \A j \in 1 .. Len(e.cores) : s[j] \in Seq(ValSet)
    BY ValuesIn
  <2>2. Len(e.cores) \in Nat
    BY <1>1
  <2>3. s \in [1 .. Len(e.cores) -> Seq(ValSet)]
    BY <2>1
  <2>. QED BY <2>2, <2>3
<1>5. \A j \in 1 .. Len(s) : j # i => s[j] = << >>
  BY <1>2, <1>3, <1>4
<1>6. FlattenSeq(s) = s[i]
  BY <1>3, <1>4, <1>5, FlattenOne
<1>. QED BY <1>3, <1>6

(* The m-th value an event appends for one of its cores, under its m-th  *)
(* name, is a cell the table may show for the event's kernel.             *)
LEMMA NewCell ==
  ASSUME NEW k, NEW e \in Events, e \in ToSet(by_kernel[k]), e.type \in {1, 2},
         NEW i \in 1 .. Len(e.cores), NEW m \in 1 .. Len(NamesOf(e))
  PROVE  CellOK(k, NamesOf(e)[m], e.cores[i].num, ValuesOf(e, e.cores[i])[m])
<1>1. PICK d : d = e.cores[i]
  OBVIOUS
<1>2. \/ Label(e, 0) = NamesOf(e)[m] /\ ValuesOf(e, d)[m] = d.c0
      \/ Label(e, 1) = NamesOf(e)[m] /\ ValuesOf(e, d)[m] = d.c1
  BY EventCells
<1>. QED BY <1>1, <1>2, Zenon DEF CellOK

(* One event folded into the matrix: every core's row grows by the        *)
(* event's values, one per name, each under the name labelling it; the    *)
(* core numbers are all rows of the matrix, so there is no IndexError.    *)
LEMMA MatrixStepInv ==
  ASSUME WellFormedDump, Inv, MatrixStep
  PROVE  Inv'
<1>. DEFINE k == kernel_list[cur + 1]
            evs == by_kernel[k]
            e == event_list[ei + 1]
<1>1. /\ phase = "matrix" /\ ei < Len(event_list) /\ MatrixOK /\ TypeInv
  BY DEF MatrixStep, Inv
<1>2. /\ k \in Kernels /\ evs \in Seq(Events) /\ Len(evs) >= 1
      /\ \A j \in 1 .. Len(evs) : evs[j].kernel = k
  BY <1>1, CurrentKernel DEF MatrixOK
<1>3. /\ event_list = remove_duplicate_events(evs)
      /\ num_cores = Len(evs[1].cores)
      /\ ei \in Nat /\ ei + 1 \in 1 .. Len(event_list)
  BY <1>1 DEF MatrixOK, TypeInv
<1>4. PICK j0 \in 1 .. Len(evs) : e = evs[j0]
  BY <1>2, <1>3, DedupFacts
<1>5. e \in Events /\ e.kernel = k /\ e \in ToSet(evs)
  BY <1>2, <1>4 DEF ToSet
<1>6. Len(e.cores) = num_cores /\ num_cores \in Nat
  <2>1. evs[1] \in Events /\ evs[1].kernel = k
    BY <1>2
  <2>. QED BY <1>1, <1>3, <1>5, <2>1 DEF WellFormedDump, TypeInv
<1>7. /\ e.type \in {1, 2}
      /\ \A i \in 1 .. Len(e.cores) : e.cores[i].num \in 0 .. num_cores - 1
  BY <1>5, <1>6, ProfilingAssumption DEF WellFormedDump
<1>8. DOMAIN rows = 0 .. num_cores - 1 /\ rows \in [0 .. num_cores - 1 -> Seq(ValSet)]
  BY <1>1 DEF TypeInv
<1>9. /\ names' = names \o NamesOf(e)
      /\ rows' = [c \in DOMAIN rows |->
                    rows[c] \o FlattenSeq([i \in 1 .. Len(e.cores) |->
                      IF e.cores[i].num = c THEN ValuesOf(e, e.cores[i]) ELSE << >>])]
  <2>1. \A i \in 1 .. Len(e.cores) : e.cores[i].num \in DOMAIN rows
    BY <1>7, <1>8
  <2>. QED BY <2>1, Zenon DEF MatrixStep
<1>20. /\ ei' = ei + 1 /\ phase' = phase
       /\ by_kernel' = by_kernel /\ opt_t' = opt_t /\ opt_g' = opt_g
       /\ kernel_list' = kernel_list /\ cur' = cur /\ event_list' = event_list
       /\ num_cores' = num_cores /\ html' = html
  <2>1. \A i \in 1 .. Len(e.cores) : e.cores[i].num \in DOMAIN rows
    BY <1>7, <1>8
  <2>. QED BY <2>1, Zenon DEF MatrixStep
<1>10. \A c \in 0 .. num_cores - 1 : \E i \in 1 .. Len(e.cores) :
         /\ e.cores[i].num = c
         /\ rows'[c] = rows[c] \o ValuesOf(e, e.cores[i])
  <2>. SUFFICES ASSUME NEW c \in 0 .. num_cores - 1
                PROVE  \E i \in 1 .. Len(e.cores) :
                         /\ e.cores[i].num = c
                         /\ rows'[c] = rows[c] \o ValuesOf(e, e.cores[i])
    OBVIOUS
  <2>1. c \in 0 .. Len(e.cores) - 1
    BY <1>6
  <2>2. PICK i \in 1 .. Len(e.cores) :
          /\ e.cores[i].num = c
          /\ FlattenSeq([j \in 1 .. Len(e.cores) |->
               IF e.cores[j].num = c THEN ValuesOf(e, e.cores[j]) ELSE << >>])
             = ValuesOf(e, e.cores[i])
    BY <1>5, <2>1, RowAppend
  <2>3. rows'[c] = rows[c] \o FlattenSeq([j \in 1 .. Len(e.cores) |->
               IF e.cores[j].num = c THEN ValuesOf(e, e.cores[j]) ELSE << >>])
    BY <1>8, <1>9
  <2>. QED BY <2>2, <2>3
<1>11. /\ NamesOf(e) \in Seq(NameSet)
       /\ names \in Seq(NameSet)
       /\ names' \in Seq(NameSet)
       /\ Len(names') = Len(names) + Len(NamesOf(e))
  <2>1. NamesOf(e) \in Seq(NameSet) /\ names \in Seq(NameSet)
    BY <1>1, <1>5, <1>7, EventCells DEF TypeInv
  <2>. QED BY <1>9, <2>1, ConcatProperties
<1>19. \A j \in 1 .. Len(names') :
         names'[j] = IF j <= Len(names) THEN names[j] ELSE NamesOf(e)[j - Len(names)]
  BY <1>9, <1>11, ConcatProperties
(* Row c of the matrix after the step.                                     *)
<1>12. \A c \in 0 .. num_cores - 1 :
         /\ rows'[c] \in Seq(ValSet)
         /\ Len(rows'[c]) = Len(names')
         /\ \A j \in 1 .. Len(names') : CellOK(k, names'[j], c, rows'[c][j])
  <2>. SUFFICES ASSUME NEW c \in 0 .. num_cores - 1
                PROVE  /\ rows'[c] \in Seq(ValSet)
                       /\ Len(rows'[c]) = Len(names')
                       /\ \A j \in 1 .. Len(names') : CellOK(k, names'[j], c, rows'[c][j])
    OBVIOUS
  <2>1. PICK i \in 1 .. Len(e.cores) :
          /\ e.cores[i].num = c
          /\ rows'[c] = rows[c] \o ValuesOf(e, e.cores[i])
    BY <1>10
  <2>2. /\ ValuesOf(e, e.cores[i]) \in Seq(ValSet)
        /\ Len(ValuesOf(e, e.cores[i])) = Len(NamesOf(e))
    BY <1>5, <1>7, ValuesIn, EventCells
  <2>3. /\ rows[c] \in Seq(ValSet)
        /\ Len(rows[c]) = Len(names)
        /\ \A j \in 1 .. Len(names) : CellOK(k, names[j], c, rows[c][j])
    BY <1>1, <1>8 DEF MatrixOK
  <2>a. PICK r : r = rows[c]
    OBVIOUS
  <2>b. PICK v : v = ValuesOf(e, e.cores[i])
    OBVIOUS
  <2>c. /\ r \o v \in Seq(ValSet)
        /\ Len(r \o v) = Len(r) + Len(v)
        /\ \A j \in 1 .. Len(r) + Len(v) : (r \o v)[j] = IF j <= Len(r) THEN r[j] ELSE v[j - Len(r)]
    <3>1. r \in Seq(ValSet) /\ v \in Seq(ValSet)
      BY <2>2, <2>3, <2>a, <2>b
    <3>. QED BY <3>1, ConcatProperties
  <2>4. /\ rows'[c] \in Seq(ValSet)
        /\ Len(rows'[c]) = Len(rows[c]) + Len(ValuesOf(e, e.cores[i]))
        /\ \A j \in 1 .. Len(rows'[c]) :
             rows'[c][j] = IF j <= Len(rows[c]) THEN rows[c][j]
                           ELSE ValuesOf(e, e.cores[i])[j - Len(rows[c])]
    BY <2>1, <2>a, <2>b, <2>c
  <2>5. Len(rows'[c]) = Len(names')
    BY <1>11, <2>2, <2>3, <2>4
  <2>6. ASSUME NEW j \in 1 .. Len(names') PROVE CellOK(k, names'[j], c, rows'[c][j])
    <3>1. CASE j <= Len(names)
      <4>1. names'[j] = names[j] /\ rows'[c][j] = rows[c][j] /\ j \in 1 .. Len(names)
        BY <1>11, <1>19, <2>3, <2>4, <2>5, <3>1
      <4>. QED BY <2>3, <4>1
    <3>2. CASE ~(j <= Len(names))
      <4>. DEFINE m == j - Len(names)
      <4>1. m \in 1 .. Len(NamesOf(e))
        BY <1>11, <3>2
      <4>2. names'[j] = NamesOf(e)[m] /\ rows'[c][j] = ValuesOf(e, e.cores[i])[m]
        BY <1>11, <1>19, <2>3, <2>4, <2>5, <3>2
      <4>3. CellOK(k, NamesOf(e)[m], e.cores[i].num, ValuesOf(e, e.cores[i])[m])
        BY <1>5, <1>7, <4>1, NewCell
      <4>. QED BY <2>1, <4>2, <4>3
    <3>. QED BY <3>1, <3>2
  <2>. QED BY <2>4, <2>5, <2>6
(* The names of the events folded in so far are among the names.         *)
<1>13. \A m \in 1 .. ei + 1 : ToSet(NamesOf(event_list[m])) \subseteq ToSet(names')
  <2>1. ToSet(names) \subseteq ToSet(names')
    <3>. SUFFICES ASSUME NEW j \in 1 .. Len(names) PROVE names[j] \in ToSet(names')
      BY <1>11 DEF ToSet
    <3>1. j \in 1 .. Len(names') /\ names'[j] = names[j]
      BY <1>11, <1>19
    <3>. QED BY <3>1 DEF ToSet
  <2>2. ToSet(NamesOf(e)) \subseteq ToSet(names')
    <3>. SUFFICES ASSUME NEW m \in 1 .. Len(NamesOf(e)) PROVE NamesOf(e)[m] \in ToSet(names')
      BY <1>11 DEF ToSet
    <3>0. Len(names) \in Nat /\ Len(NamesOf(e)) \in Nat
      BY <1>11
    <3>1. Len(names) + m \in 1 .. Len(names')
      BY <1>11, <3>0
    <3>2. names'[Len(names) + m] = NamesOf(e)[m]
      BY <1>19, <3>0, <3>1
    <3>. QED BY <3>1, <3>2 DEF ToSet
  <2>3. \A m \in 1 .. ei : ToSet(NamesOf(event_list[m])) \subseteq ToSet(names)
    BY <1>1 DEF MatrixOK
  <2>. QED BY <1>3, <2>1, <2>2, <2>3
<1>14. TypeInv'
  <2>1. rows' \in [0 .. num_cores' - 1 -> Seq(ValSet)]
    BY <1>8, <1>9, <1>12, <1>20
  <2>. QED BY <1>1, <1>3, <1>20, <1>11, <2>1 DEF TypeInv
<1>15. MatrixOK'
  <2>1. ei' <= Len(event_list')
    BY <1>3, <1>20
  <2>2. \A c \in 0 .. num_cores - 1 : \A j \in 1 .. Len(names') :
          (CellOK(kernel_list[cur + 1], names[j], c, rows[c][j]))'
            = CellOK(k, names'[j], c, rows'[c][j])
    BY <1>20 DEF CellOK
  <2>3. (\A c \in 0 .. num_cores - 1 :
           /\ Len(rows[c]) = Len(names)
           /\ \A j \in 1 .. Len(names) : CellOK(kernel_list[cur + 1], names[j], c, rows[c][j]))'
    BY <1>12, <1>20, <2>2
  <2>4. \A m \in 1 .. ei' : ToSet(NamesOf(event_list'[m])) \subseteq ToSet(names')
    BY <1>13, <1>20
  <2>5. /\ cur' < Len(kernel_list')
        /\ event_list' = remove_duplicate_events(by_kernel'[kernel_list'[cur' + 1]])
        /\ num_cores' = Len(by_kernel'[kernel_list'[cur' + 1]][1].cores)
    BY <1>1, <1>20 DEF MatrixOK
  <2>. QED BY <2>1, <2>3, <2>4, <2>5 DEF MatrixOK
<1>16. /\ NonEmptyKernels' = NonEmptyKernels
       /\ Reported' = Reported
       /\ TableShowsCounters' = TableShowsCounters
  BY <1>20 DEF NonEmptyKernels, Reported, TableShowsCounters
<1>. QED BY <1>1, <1>20, <1>14, <1>15, <1>16
  DEF Inv, KernelsOK, MarkOK, ListOK, ReportCompletes

(* Row i of the table form_table prints for the current kernel.           *)
PRow(i) == [kernel |-> kernel_list[cur + 1], name |-> names[i],
            cells |-> [c \in 0 .. num_cores - 1 |-> rows[c][i]]]

(* Once the matrix is built, every core has a value for every name: the   *)
(* table is printed whole and numpy takes the matrix.                      *)
LEMMA PrintedFull ==
  ASSUME Inv, phase = "matrix"
  PROVE  /\ \A i \in 1 .. Len(names) : Short(i) = {}
         /\ Rectangular
         /\ Printed = [i \in 1 .. Len(names) |-> PRow(i)]
<1>1. /\ MatrixOK
      /\ rows \in [0 .. num_cores - 1 -> Seq(ValSet)]
      /\ names \in Seq(NameSet)
  BY DEF Inv, TypeInv
<1>2. \A c \in 0 .. num_cores - 1 : c \in DOMAIN rows /\ Len(rows[c]) = Len(names)
  BY <1>1 DEF MatrixOK
<1>3. \A i \in 1 .. Len(names) : Short(i) = {}
  BY <1>1, <1>2 DEF Short
<1>4. {i \in 1 .. Len(names) : Short(i) # {}} = {}
  BY <1>3
<1>5. Printed = [i \in 1 .. Len(names) + 1 - 1 |-> PRow(i)]
  BY <1>4 DEF Printed, PRow
<1>6. Len(names) + 1 - 1 = Len(names)
  BY <1>1
<1>. QED BY <1>2, <1>3, <1>5, <1>6 DEF Rectangular

(* The rows printed for the current kernel: one per name, each cell the   *)
(* counter its name labels.                                                *)
LEMMA PrintedRows ==
  ASSUME WellFormedDump, Inv, phase = "matrix"
  PROVE  /\ Printed \in Seq(HtmlRow)
         /\ Len(Printed) = Len(names)
         /\ \A i \in 1 .. Len(names) :
              /\ Printed[i] = PRow(i)
              /\ \A c \in DOMAIN PRow(i).cells :
                   CellOK(kernel_list[cur + 1], names[i], c, PRow(i).cells[c])
<1>1. /\ MatrixOK
      /\ rows \in [0 .. num_cores - 1 -> Seq(ValSet)]
      /\ names \in Seq(NameSet)
      /\ num_cores \in Nat
      /\ cur < Len(kernel_list)
  BY DEF Inv, TypeInv, MatrixOK
<1>2. kernel_list[cur + 1] \in Kernels
  BY <1>1, CurrentKernel
<1>3. \A i \in 1 .. Len(names) : PRow(i) \in HtmlRow
  <2>. SUFFICES ASSUME NEW i \in 1 .. Len(names) PROVE PRow(i) \in HtmlRow
    OBVIOUS
  <2>1. \A c \in 0 .. num_cores - 1 : Len(rows[c]) = Len(names)
    BY <1>1 DEF MatrixOK
  <2>2. \A c \in 0 .. num_cores - 1 : rows[c][i] \in ValSet
    BY <1>1, <2>1
  <2>3. [c \in 0 .. num_cores - 1 |-> rows[c][i]] \in [0 .. num_cores - 1 -> ValSet]
    BY <2>2
  <2>4. names[i] \in NameSet
    BY <1>1
  <2>. QED BY <1>1, <1>2, <2>3, <2>4 DEF PRow, HtmlRow
<1>4. \A i \in 1 .. Len(names) : \A c \in DOMAIN PRow(i).cells :
        CellOK(kernel_list[cur + 1], names[i], c, PRow(i).cells[c])
  BY <1>1 DEF MatrixOK, PRow
<1>5. Printed = [i \in 1 .. Len(names) |-> PRow(i)] /\ Len(names) \in Nat
  BY <1>1, PrintedFull
<1>6. Printed \in Seq(HtmlRow) /\ Len(Printed) = Len(names)
  <2>1. Printed \in [1 .. Len(names) -> HtmlRow]
    BY <1>3, <1>5
  <2>. QED BY <1>5, <2>1
<1>. QED BY <1>4, <1>5, <1>6

(* The names of the current kernel's events are all among the names, and *)
(* so, once its matrix is built, every name of every one of its events.  *)
LEMMA NamesCovered ==
  ASSUME WellFormedDump, Inv, phase = "matrix", ei = Len(event_list),
         NEW e \in ToSet(by_kernel[kernel_list[cur + 1]]), NEW n \in ToSet(NamesOf(e))
  PROVE  \E i \in 1 .. Len(names) : names[i] = n
<1>. DEFINE k == kernel_list[cur + 1]
            evs == by_kernel[k]
<1>1. /\ MatrixOK /\ cur < Len(kernel_list)
  BY DEF Inv, MatrixOK
<1>2. /\ k \in Kernels /\ evs \in Seq(Events)
      /\ \A j \in 1 .. Len(evs) : evs[j].kernel = k
  BY <1>1, CurrentKernel
<1>3. PICK j \in 1 .. Len(evs) : e = evs[j]
  BY <1>2 DEF ToSet
<1>4. event_list = remove_duplicate_events(evs)
  BY <1>1 DEF MatrixOK
<1>5. PICK m \in 1 .. Len(event_list) : Name1(event_list[m]) = Name1(e)
  BY <1>2, <1>3, <1>4, DedupFacts
<1>6. PICK j2 \in 1 .. Len(evs) : event_list[m] = evs[j2]
  BY <1>2, <1>4, DedupFacts
<1>7. event_list[m] \in Events /\ e \in Events /\ event_list[m].kernel = e.kernel
  BY <1>2, <1>3, <1>6
<1>8. NamesOf(event_list[m]) = NamesOf(e)
  BY <1>5, <1>7 DEF WellFormedDump
<1>9. ToSet(NamesOf(event_list[m])) \subseteq ToSet(names)
  BY <1>1 DEF MatrixOK
<1>10. names \in Seq(NameSet)
  BY DEF Inv, TypeInv
<1>11. n \in ToSet(names)
  BY <1>8, <1>9, Zenon
<1>. QED BY <1>10, <1>11 DEF ToSet

LEMMA FinishKernelInv ==
  ASSUME WellFormedDump, Inv, FinishKernel
  PROVE  Inv'
<1>. DEFINE k == kernel_list[cur + 1]
<1>1. /\ phase = "matrix" /\ ei = Len(event_list)
      /\ MatrixOK /\ TypeInv /\ cur < Len(kernel_list)
      /\ html \in Seq(HtmlRow)
  BY DEF FinishKernel, Inv, TypeInv, MatrixOK
<1>2. /\ \A i \in 1 .. Len(names) : Short(i) = {}
      /\ Rectangular
  BY <1>1, PrintedFull
<1>3. html' = IF opt_t THEN html \o Printed ELSE html
  BY <1>2 DEF FinishKernel
<1>11. /\ phase' = "analyze" /\ cur' = cur + 1
      /\ by_kernel' = by_kernel /\ opt_t' = opt_t /\ opt_g' = opt_g
      /\ kernel_list' = kernel_list /\ event_list' = event_list /\ ei' = ei
      /\ num_cores' = num_cores /\ names' = names /\ rows' = rows
  BY <1>2 DEF FinishKernel
<1>4. /\ Printed \in Seq(HtmlRow)
      /\ Len(Printed) = Len(names)
      /\ \A i \in 1 .. Len(names) :
           /\ Printed[i] = PRow(i)
           /\ \A c \in DOMAIN PRow(i).cells : CellOK(k, names[i], c, PRow(i).cells[c])
  BY <1>1, PrintedRows
(* What the table file holds after the step.                               *)
<1>5. /\ html' \in Seq(HtmlRow)
      /\ \A t \in 1 .. Len(html) : t \in 1 .. Len(html') /\ html'[t] = html[t]
  <2>1. CASE opt_t
    <3>1. /\ html \o Printed \in Seq(HtmlRow)
          /\ Len(html \o Printed) = Len(html) + Len(Printed)
          /\ \A t \in 1 .. Len(html) + Len(Printed) :
               (html \o Printed)[t] = IF t <= Len(html) THEN html[t] ELSE Printed[t - Len(html)]
      BY <1>1, <1>4, ConcatProperties
    <3>. QED BY <1>3, <1>4, <2>1, <3>1
  <2>2. CASE ~opt_t
    BY <1>1, <1>3, <2>2
  <2>. QED BY <2>1, <2>2
<1>10. opt_t => /\ Len(html') = Len(html) + Len(names)
               /\ \A i \in 1 .. Len(names) : html'[Len(html) + i] = PRow(i)
  <2>. SUFFICES ASSUME opt_t
                PROVE  /\ Len(html') = Len(html) + Len(names)
                       /\ \A i \in 1 .. Len(names) : html'[Len(html) + i] = PRow(i)
    OBVIOUS
  <2>1. /\ Len(html \o Printed) = Len(html) + Len(Printed)
        /\ \A t \in 1 .. Len(html) + Len(Printed) :
             (html \o Printed)[t] = IF t <= Len(html) THEN html[t] ELSE Printed[t - Len(html)]
    BY <1>1, <1>4, ConcatProperties
  <2>2. html' = html \o Printed
    BY <1>3
  <2>3. Len(html) \in Nat /\ Len(names) \in Nat
    BY <1>1 DEF TypeInv
  <2>. QED BY <1>4, <2>1, <2>2, <2>3
<1>6. TypeInv'
  BY <1>1, <1>11, <1>5 DEF TypeInv
<1>7. TableShowsCounters'
  <2>. SUFFICES ASSUME NEW t \in 1 .. Len(html'), NEW c \in DOMAIN html'[t].cells
                PROVE  CellOK(html'[t].kernel, html'[t].name, c, html'[t].cells[c])
    <3>1. by_kernel' = by_kernel
      BY <1>11
    <3>. QED BY <3>1, Zenon DEF TableShowsCounters, CellOK
  <2>1. CASE t \in 1 .. Len(html)
    <3>1. html'[t] = html[t]
      BY <1>5, <2>1
    <3>. QED BY <1>1, <2>1, <3>1 DEF Inv, TableShowsCounters, CellOK
  <2>2. CASE t \notin 1 .. Len(html)
    <3>1. opt_t
      BY <1>3, <2>2
    <3>0. Len(html) \in Nat /\ Len(names) \in Nat
      BY <1>1 DEF TypeInv
    <3>1a. Len(html') = Len(html) + Len(names)
      BY <1>10, <3>1
    <3>1b. t - Len(html) \in 1 .. Len(names) /\ t = Len(html) + (t - Len(html))
      BY <2>2, <3>0, <3>1a
    <3>2. PICK i \in 1 .. Len(names) : t = Len(html) + i
      BY <3>1b
    <3>3. html'[t] = PRow(i)
      BY <1>10, <3>1, <3>2
    <3>. QED BY <1>4, <3>3 DEF PRow
  <2>. QED BY <2>1, <2>2
<1>8. opt_t => Reported'
  <2>. SUFFICES ASSUME opt_t, NEW m \in 1 .. cur + 1,
                       NEW e \in ToSet(by_kernel[kernel_list[m]]),
                       NEW n \in ToSet(NamesOf(e))
                PROVE  \E t \in 1 .. Len(html') :
                         html'[t].kernel = kernel_list[m] /\ html'[t].name = n
    BY <1>11 DEF Reported
  <2>1. CASE m \in 1 .. cur
    <3>1. Reported
      BY <1>1 DEF Inv
    <3>2. PICK t \in 1 .. Len(html) : html[t].kernel = kernel_list[m] /\ html[t].name = n
      BY <2>1, <3>1 DEF Reported
    <3>. QED BY <1>5, <3>2
  <2>2. CASE m = cur + 1
    <3>1. PICK i \in 1 .. Len(names) : names[i] = n
      BY <1>1, <2>2, NamesCovered
    <3>2. Len(html) + i \in 1 .. Len(html') /\ html'[Len(html) + i] = PRow(i)
      BY <1>1, <1>10, <3>1 DEF TypeInv
    <3>. QED BY <2>2, <3>1, <3>2 DEF PRow
  <2>. QED BY <2>1, <2>2, <1>1 DEF TypeInv
<1>9. ListOK'
  <2>1. NonEmptyKernels' = NonEmptyKernels
    BY <1>11 DEF NonEmptyKernels
  <2>2. ToSet(kernel_list) = NonEmptyKernels
    BY <1>1 DEF Inv, ListOK
  <2>3. ToSet(kernel_list') = NonEmptyKernels'
    BY <1>11, <2>1, <2>2
  <2>4. cur' <= Len(kernel_list') /\ phase' = "analyze"
    BY <1>1, <1>11 DEF TypeInv
  <2>. QED BY <2>3, <2>4 DEF ListOK
<1>. QED BY <1>11, <1>6, <1>7, <1>8, <1>9
  DEF Inv, KernelsOK, MarkOK, ReportCompletes

-----------------------------------------------------------------------------
(***************************************************************************)
(* The invariant and the three properties.                                 *)
(***************************************************************************)

LEMMA StutterInv ==
  ASSUME Inv, UNCHANGED vars
  PROVE  Inv'
<1>1. /\ by_kernel' = by_kernel /\ opt_t' = opt_t /\ opt_g' = opt_g
      /\ phase' = phase /\ kernel_list' = kernel_list /\ cur' = cur
      /\ event_list' = event_list /\ ei' = ei /\ num_cores' = num_cores
      /\ names' = names /\ rows' = rows /\ html' = html
  BY DEF vars
<1>2. TypeInv' /\ KernelsOK' /\ MarkOK' /\ ReportCompletes'
  BY <1>1 DEF Inv, TypeInv, KernelsOK, MarkOK, ReportCompletes
<1>3. TableShowsCounters'
  <2>1. TableShowsCounters
    BY DEF Inv
  <2>. QED BY <1>1, <2>1 DEF TableShowsCounters
<1>4. ListOK'
  <2>1. NonEmptyKernels' = NonEmptyKernels
    BY <1>1 DEF NonEmptyKernels
  <2>. QED BY <1>1, <2>1 DEF Inv, ListOK
<1>5. (phase = "matrix" => MatrixOK)'
  <2>1. \A c \in 0 .. num_cores - 1 : \A j \in 1 .. Len(names) :
          (CellOK(kernel_list[cur + 1], names[j], c, rows[c][j]))'
            = CellOK(kernel_list[cur + 1], names[j], c, rows[c][j])
    BY <1>1 DEF CellOK
  <2>. QED BY <1>1, <2>1 DEF Inv, MatrixOK
<1>6. (phase \in {"analyze", "matrix", "done"} /\ opt_t => Reported)'
  BY <1>1 DEF Inv, Reported
<1>. QED BY <1>2, <1>3, <1>4, <1>5, <1>6 DEF Inv

LEMMA NextInv ==
  ASSUME WellFormedDump, Inv, [Next]_vars
  PROVE  Inv'
BY InitMatrixInv, CleanupInv, MarkEventInv, FormKernelsInv, AnalysisDoneInv,
   MatrixStepInv, FinishKernelInv, StutterInv DEF Next

(* Once the report is done with -t, every name of every event of every    *)
(* kernel has a row: the kernel is in kernel_list, and it was analysed.   *)
LEMMA InvAllEvents ==
  ASSUME Inv
  PROVE  AllEventsReported
<1>. SUFFICES ASSUME phase = "done", opt_t, NEW k \in Kernels,
                     NEW e \in ToSet(by_kernel[k]), NEW n \in ToSet(NamesOf(e))
              PROVE  \E t \in 1 .. Len(html) : html[t].kernel = k /\ html[t].name = n
  BY DEF AllEventsReported
<1>1. /\ ToSet(kernel_list) = NonEmptyKernels
      /\ cur = Len(kernel_list)
      /\ Reported
      /\ kernel_list \in Seq(Kernels)
      /\ by_kernel \in [Kernels -> Seq(Events)]
  BY DEF Inv, ListOK, TypeInv
<1>2. by_kernel[k] # << >>
  BY DEF ToSet
<1>3. k \in ToSet(kernel_list)
  BY <1>1, <1>2 DEF NonEmptyKernels
<1>4. PICK m \in 1 .. cur : kernel_list[m] = k
  BY <1>1, <1>3 DEF ToSet
<1>. QED BY <1>1, <1>4 DEF Reported

(* The inductive invariant holds in every state of the report, for every *)
(* well formed dump.                                                       *)
THEOREM ProfilingInvariant == WellFormedDump => (Spec => []Inv)
<1>. SUFFICES ASSUME WellFormedDump PROVE Spec => []Inv
  OBVIOUS
<1>1. Init => Inv
  BY InitInv
<1>2. Inv /\ [Next]_vars => Inv'
  BY NextInv
<1>. QED BY <1>1, <1>2, PTL DEF Spec

(* TableShowsCounters: for every well formed dump in profiling/, every    *)
(* cell form_table prints is the counter that update_event_names labels  *)
(* with the row's name, in an event of the row's kernel.                  *)
THEOREM ProfilingTableShowsCounters == WellFormedDump => (Spec => []TableShowsCounters)
<1>1. Inv => TableShowsCounters
  BY DEF Inv
<1>. QED BY <1>1, ProfilingInvariant, PTL

(* ReportCompletes: form_profiling_matrix and form_table raise no         *)
(* IndexError, and np.array gets a rectangular matrix, on every well      *)
(* formed dump.                                                            *)
THEOREM ProfilingReportCompletes == WellFormedDump => (Spec => []ReportCompletes)
<1>1. Inv => ReportCompletes
  BY DEF Inv
<1>. QED BY <1>1, ProfilingInvariant, PTL

(* AllEventsReported: with -t, remove_duplicate_events drops no name from *)
(* the table of a well formed dump.                                       *)
THEOREM ProfilingAllEventsReported == WellFormedDump => (Spec => []AllEventsReported)
<1>1. Inv => AllEventsReported
  BY InvAllEvents
<1>. QED BY <1>1, ProfilingInvariant, PTL
=============================================================================

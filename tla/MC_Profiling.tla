----------------------------- MODULE MC_Profiling -----------------------------
(***************************************************************************)
(* Small dumps for Profiling: kernel k1 on two cores with a stall event,  *)
(* a two-event memory block whose cores come in reverse order, a memory   *)
(* block with its second counter unused, and a rerun of the two-event     *)
(* block with other counts; kernel k2 on one core.  Every counter value   *)
(* is distinct: <<block, counter, core>>.                                  *)
(***************************************************************************)
EXTENDS Profiling

Cd(id, n) == [num |-> n, c0 |-> <<id, 0, n>>, c1 |-> <<id, 1, n>>]

Ev(id, k, type, n1, n2, cs) ==
  [kernel |-> k, type |-> type, n1 |-> n1, n2 |-> n2,
   cores |-> [i \in 1 .. Len(cs) |-> Cd(id, cs[i])]]

eStall  == Ev(1, "k1", 1, 0, -1, <<0, 1>>)
eMem    == Ev(2, "k1", 2, 1, 2, <<1, 0>>)
eUnused == Ev(3, "k1", 2, 3, -1, <<0, 1>>)
eRerun  == Ev(4, "k1", 2, 1, 2, <<0, 1>>)
eK2     == Ev(5, "k2", 1, 1, -1, <<0>>)
(* A block sharing its first event with eMem and not its second.           *)
eOther  == Ev(6, "k1", 2, 1, 3, <<0, 1>>)
(* A block of type 0, the stall event of event.py's comment.               *)
eType0  == Ev(7, "k1", 0, 0, -1, <<0, 1>>)

MCKernels == {"k1", "k2"}
MCEvents == {eStall, eMem, eUnused, eRerun, eK2}
MCEventsOther == MCEvents \cup {eOther}
MCEventsType0 == {eStall, eType0, eK2}
MCMaxEvents == 3

(* A row left in profiling/aetdata.html by an earlier run of another dump. *)
oldRow == [kernel |-> "k1", name |-> [table |-> "mem", num |-> 1],
           cells |-> [c \in 0 .. 1 |-> <<0, 0, c>>]]
MCOldReports == {<<>>, <<oldRow>>}

(* The 50/30 of form_graph scaled to this dump's sizes: a kernel with     *)
(* three names gets a memory figure of two and a stall figure of one.     *)
MCAllEventsCount == 3
MCMemPlotCount == 2
=============================================================================

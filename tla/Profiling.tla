------------------------------ MODULE Profiling ------------------------------
(***************************************************************************)
(* The profiling report of src/profiling/oclaet.py and its classes         *)
(* (event.py, kernel.py, table.py).                                        *)
(*                                                                         *)
(* mark_events_and_cores reads the counter dump one '---End Kernel' block *)
(* at a time; each block is one event record (its kernel, type, the two   *)
(* event numbers and the per-core counters), grouped by kernel name.  The *)
(* block's layout in the dump is abstracted: the environment chooses each *)
(* next event from Events.  form_kernels lists the kernels in the dict's  *)
(* order; then, with -t or -g, each kernel's core x event matrix is built *)
(* one event per step (form_profiling_matrix) and, with -t, printed as an *)
(* HTML table, rows appended to aetdata.html.                              *)
(*                                                                         *)
(* An event's name comes from the AET event tables, outside this          *)
(* repository: a name is abstracted to its table and number.  The JSON    *)
(* report and the percent column with the stall total feeding it are     *)
(* left out: no property here is about them.  Before all this,            *)
(* cleanup_files deletes the files beside the dump, which empties the     *)
(* table file only when the dump lies in profiling/.  With -g, form_graph *)
(* plots each kernel's matrix, split 30/20 into a memory and a stall plot *)
(* when the kernel has exactly 50 names.                                   *)
(***************************************************************************)
EXTENDS Integers, Sequences, FiniteSets, SequencesExt

CONSTANTS
  Kernels,    \* kernel names
  Events,     \* the event blocks the dump may hold
  MaxEvents,  \* bound on the number of blocks in the dump
  DumpDirs,   \* where the dump lies: "report" (profiling/) or "other"
  OldReports, \* the rows profiling/aetdata.html may hold before the run
  AllEventsCount, \* the 50 of det_if_profiling_all_events
  MemPlotCount    \* the 30 memory events form_graph plots first

ASSUME ProfilingAssumption ==
  /\ IsFiniteSet(Kernels)
  /\ MaxEvents \in Nat
  /\ DumpDirs \subseteq {"report", "other"}
  /\ MemPlotCount \in Nat /\ AllEventsCount \in Nat /\ MemPlotCount <= AllEventsCount
  /\ \A e \in Events : e.kernel \in Kernels /\ e.type \in Int /\ e.n2 \in Int
  /\ \A e \in Events : \A i \in 1 .. Len(e.cores) : e.cores[i].num \in Nat

VARIABLES
  by_kernel,     \* kernel_name_to_event: kernel -> its events, in dump order
  blocks,        \* number of blocks read
  opt_t,         \* '-t' in sys.argv
  opt_g,         \* '-g' in sys.argv
  phase,         \* "cleanup", "mark", "analyze", "matrix", "done",
                 \* "exited" or "crashed"
  kernel_list,   \* form_kernels' list of kernel names
  cur,           \* kernels of kernel_list analysed so far
  event_list,    \* the current kernel's event_list, after remove_duplicate_events
  ei,            \* events of event_list folded into the matrix so far
  num_cores,     \* the current kernel's num_cores
  names,         \* the current kernel's list_events_by_name
  rows,          \* the current kernel's core_to_event_values: core -> values
  html,          \* the rows of aetdata.html: kernel, name, core -> value
  plots          \* the figures saved by form_graph: kernel, title, names

vars == <<by_kernel, blocks, opt_t, opt_g, phase, kernel_list, cur, event_list,
          ei, num_cores, names, rows, html, plots>>

(* Strings of update_event_names other than event names: "" (the initial *)
(* event_1_name and event_2_name), "Threshold Counter", "Unused Counter".  *)
NoName    == [table |-> "none", num |-> 0]
Threshold == [table |-> "threshold", num |-> 0]
Unused    == [table |-> "unused", num |-> 0]

(* event_data.update_event_names: event_1_name, event_2_name, and the     *)
(* labels of counter0 and counter1.                                        *)
Name1(e) ==
  CASE e.type = 2 -> [table |-> "mem", num |-> e.n1]
    [] e.type = 1 -> [table |-> "stall", num |-> e.n1]
    [] OTHER      -> NoName

Name2(e) == IF e.type = 2 /\ e.n2 >= 0 THEN [table |-> "mem", num |-> e.n2] ELSE NoName

Label(e, k) ==
  CASE e.type = 2 -> IF k = 0 THEN Name1(e) ELSE IF e.n2 >= 0 THEN Name2(e) ELSE Unused
    [] e.type = 1 -> IF k = 0 THEN Threshold ELSE Name1(e)
    [] OTHER      -> NoName

(* The names form_profiling_matrix appends for an event.                   *)
NamesOf(e) == <<Name1(e)>> \o (IF e.type = 2 /\ e.n2 >= 0 THEN <<Name2(e)>> ELSE <<>>)

(* Mutant: a two-event block's counters appended second counter first.   *)
ValuesOfSwapped(e, d) ==
  CASE e.type = 1 -> <<d.c1>>
    [] e.type = 2 -> (IF e.n2 >= 0 THEN <<d.c1>> ELSE <<>>) \o <<d.c0>>
    [] OTHER      -> <<>>

(* The values update_event_core_data appends for one core of an event.     *)
ValuesOf(e, d) ==
  CASE e.type = 1 -> <<d.c1>>
    [] e.type = 2 -> <<d.c0>> \o (IF e.n2 >= 0 THEN <<d.c1>> ELSE <<>>)
    [] OTHER      -> <<>>

(* Mutant: the duplicate check keyed on the event's kernel name (event.name). *)
remove_duplicates_by_kernel(evs) ==
  LET loop[i \in 0 .. Len(evs)] ==
        IF i = 0 THEN [kept |-> << >>, seen |-> {}]
        ELSE IF evs[i].kernel \in loop[i - 1].seen THEN loop[i - 1]
        ELSE [kept |-> Append(loop[i - 1].kept, evs[i]),
              seen |-> loop[i - 1].seen \cup {evs[i].kernel}]
  IN  loop[Len(evs)].kept

(* kernel_data.remove_duplicate_events: the loop over event_list keeps an *)
(* event whose event_1_name is not yet in the set 'events', and adds that *)
(* name to it.                                                             *)
remove_duplicate_events(evs) ==
  LET loop[i \in 0 .. Len(evs)] ==
        IF i = 0 THEN [kept |-> << >>, seen |-> {}]
        ELSE IF Name1(evs[i]) \in loop[i - 1].seen THEN loop[i - 1]
        ELSE [kept |-> Append(loop[i - 1].kept, evs[i]),
              seen |-> loop[i - 1].seen \cup {Name1(evs[i])}]
  IN  loop[Len(evs)].kept

Init ==
  /\ by_kernel = [k \in Kernels |-> <<>>]
  /\ blocks = 0
  /\ opt_t \in BOOLEAN
  /\ opt_g \in BOOLEAN
  /\ phase = "cleanup"
  /\ kernel_list = <<>>
  /\ cur = 0
  /\ event_list = <<>>
  /\ ei = 0
  /\ num_cores = 0
  /\ names = <<>>
  /\ rows = <<>>
  /\ html \in OldReports
  /\ plots = <<>>

(* Mutant: the old report left in place wherever the dump lies.            *)
CleanupKeepsReport ==
  /\ phase = "cleanup"
  /\ \/ phase' = "exited"
     \/ phase' = "mark"
  /\ UNCHANGED <<by_kernel, blocks, opt_t, opt_g, kernel_list, cur, event_list,
                 ei, num_cores, names, rows, html, plots>>

(* cleanup_files: a dump path that is no file ends the script (exit(0));  *)
(* otherwise every file beside the dump but aetdata.txt is removed, and   *)
(* the table form_table appends to, profiling/aetdata.html, is among them *)
(* only when the dump lies in profiling/.                                  *)
Cleanup ==
  /\ phase = "cleanup"
  /\ \/ /\ phase' = "exited"
        /\ UNCHANGED html
     \/ /\ phase' = "mark"
        /\ \E d \in DumpDirs : html' = IF d = "report" THEN <<>> ELSE html
  /\ UNCHANGED <<by_kernel, blocks, opt_t, opt_g, kernel_list, cur, event_list,
                 ei, num_cores, names, rows, plots>>

(* mark_events_and_cores: one '---End Kernel' block, its cores collected  *)
(* by process_core_data, appended to its kernel's list.                    *)
MarkEvent ==
  /\ phase = "mark"
  /\ blocks < MaxEvents
  /\ \E e \in Events : by_kernel' = [by_kernel EXCEPT ![e.kernel] = Append(@, e)]
  /\ blocks' = blocks + 1
  /\ UNCHANGED <<opt_t, opt_g, phase, kernel_list, cur, event_list, ei,
                 num_cores, names, rows, html, plots>>

(* The end of the dump: form_kernels lists the dict's keys in an order    *)
(* the dict chooses; print_json writes the JSON; analyze_kernel_data does *)
(* nothing more without -t or -g.                                         *)
FormKernels ==
  /\ phase = "mark"
  /\ kernel_list' \in SetToSeqs({k \in Kernels : by_kernel[k] # <<>>})
  /\ phase' = IF opt_t \/ opt_g THEN "analyze" ELSE "done"
  /\ UNCHANGED <<by_kernel, blocks, opt_t, opt_g, cur, event_list, ei,
                 num_cores, names, rows, html, plots>>

(* Mutant: initialize_core_to_event with range(num_cores - 1).             *)
InitMatrixShort ==
  /\ phase = "analyze"
  /\ cur < Len(kernel_list)
  /\ LET evs == by_kernel[kernel_list[cur + 1]]
     IN  /\ num_cores' = Len(evs[1].cores)
         /\ rows' = [c \in 0 .. Len(evs[1].cores) - 2 |-> <<>>]
         /\ event_list' = remove_duplicate_events(evs)
  /\ ei' = 0
  /\ names' = <<>>
  /\ phase' = "matrix"
  /\ UNCHANGED <<by_kernel, blocks, opt_t, opt_g, kernel_list, cur, html, plots>>

(* form_profiling_matrix, first two calls: initialize_core_to_event takes *)
(* num_cores from the first event, then remove_duplicate_events.          *)
InitMatrix ==
  /\ phase = "analyze"
  /\ cur < Len(kernel_list)
  /\ LET evs == by_kernel[kernel_list[cur + 1]]
     IN  /\ num_cores' = Len(evs[1].cores)
         /\ rows' = [c \in 0 .. Len(evs[1].cores) - 1 |-> <<>>]
         /\ event_list' = remove_duplicate_events(evs)
  /\ ei' = 0
  /\ names' = <<>>
  /\ phase' = "matrix"
  /\ UNCHANGED <<by_kernel, blocks, opt_t, opt_g, kernel_list, cur, html, plots>>

(* One iteration of form_profiling_matrix's loop: the event's names, then *)
(* update_event_core_data appending each core's values to the row of its  *)
(* core_number; a core_number past the matrix raises IndexError.           *)
MatrixStep ==
  /\ phase = "matrix"
  /\ ei < Len(event_list)
  /\ LET e == event_list[ei + 1]
     IN  IF \A i \in 1 .. Len(e.cores) : e.cores[i].num \in DOMAIN rows
           THEN /\ names' = names \o NamesOf(e)
                /\ rows' = [c \in DOMAIN rows |->
                              rows[c] \o FlattenSeq([i \in 1 .. Len(e.cores) |->
                                IF e.cores[i].num = c THEN ValuesOf(e, e.cores[i])
                                                      ELSE <<>>])]
                /\ ei' = ei + 1
                /\ UNCHANGED phase
           ELSE /\ phase' = "crashed"
                /\ UNCHANGED <<names, rows, ei>>
  /\ UNCHANGED <<by_kernel, blocks, opt_t, opt_g, kernel_list, cur, event_list,
                 num_cores, html, plots>>

(* table.form_table (with -t): for each name, in order, the value of every *)
(* core at that index.  Row i is complete when every core's row has an     *)
(* i-th value; at the first missing one the read raises IndexError after  *)
(* the cells before it were printed.                                       *)
Short(i) == {c \in 0 .. num_cores - 1 : c \notin DOMAIN rows \/ Len(rows[c]) < i}

Printed ==
  LET bad  == {i \in 1 .. Len(names) : Short(i) # {}}
      last == IF bad = {} THEN Len(names) + 1 ELSE CHOOSE i \in bad : \A j \in bad : i <= j
      Row(i, w) == [kernel |-> kernel_list[cur + 1], name |-> names[i],
                    cells |-> [c \in 0 .. w - 1 |-> rows[c][i]]]
      full == [i \in 1 .. last - 1 |-> Row(i, num_cores)]
  IN  IF bad = {} THEN full
      ELSE full \o <<Row(last, CHOOSE c \in Short(last) : \A d \in Short(last) : c <= d)>>

(* The matrix as numpy takes it: one row per core, as many values as      *)
(* names.  Otherwise np.array and pd.DataFrame(a, index=b) raise.          *)
Rectangular ==
  \A c \in 0 .. num_cores - 1 : c \in DOMAIN rows /\ Len(rows[c]) = Len(names)

(* plot.form_graph: one figure of all names, or, with exactly 50 names    *)
(* (is_profiling_all_events), the first 30 titled Memory and the rest    *)
(* titled Stall.                                                           *)
form_graph(k) ==
  IF Len(names) = AllEventsCount
    THEN << [kernel |-> k, title |-> "Memory", names |-> SubSeq(names, 1, MemPlotCount)],
            [kernel |-> k, title |-> "Stall",
             names |-> SubSeq(names, MemPlotCount + 1, Len(names))] >>
    ELSE << [kernel |-> k, title |-> "Profiling", names |-> names] >>

(* The loop has consumed the event list: count_total_stall_cycles (only   *)
(* the percent column uses it) and det_if_profiling_all_events, then the  *)
(* table when -t was given, then the plots when -g was given.  An         *)
(* IndexError of the table ends the script before the plots.               *)
FinishKernel ==
  /\ phase = "matrix"
  /\ ei = Len(event_list)
  /\ LET k          == kernel_list[cur + 1]
         tableCrash == opt_t /\ \E i \in 1 .. Len(names) : Short(i) # {}
         graphCrash == opt_g /\ ~Rectangular
     IN  /\ html' = IF opt_t THEN html \o Printed ELSE html
         /\ plots' = IF opt_g /\ ~tableCrash /\ ~graphCrash
                        THEN plots \o form_graph(k) ELSE plots
         /\ phase' = IF tableCrash \/ graphCrash THEN "crashed" ELSE "analyze"
  /\ cur' = cur + 1
  /\ UNCHANGED <<by_kernel, blocks, opt_t, opt_g, kernel_list, event_list, ei,
                 num_cores, names, rows>>

(* analyze_kernel_data returns after the last kernel.                       *)
AnalysisDone ==
  /\ phase = "analyze"
  /\ cur = Len(kernel_list)
  /\ phase' = "done"
  /\ UNCHANGED <<by_kernel, blocks, opt_t, opt_g, kernel_list, cur, event_list,
                 ei, num_cores, names, rows, html, plots>>

Next ==
  \/ Cleanup
  \/ MarkEvent
  \/ FormKernels
  \/ InitMatrix
  \/ MatrixStep
  \/ FinishKernel
  \/ AnalysisDone

Spec == Init /\ [][Next]_vars

-----------------------------------------------------------------------------
(* The HTML table agrees with the labels the JSON report gives each       *)
(* counter (update_event_names): every cell printed under an event name   *)
(* for a core is that core's counter, in some event of that kernel, that  *)
(* is labelled with that name.  The table's rows and values are built by  *)
(* form_profiling_matrix and update_event_core_data separately, and they *)
(* line up only if every event appends as many values per core as names.  *)
(* The table file is the one the run reports in once cleanup_files has    *)
(* run and found the dump.                                                 *)
TableShowsCounters ==
  phase \notin {"cleanup", "exited"} =>
  \A t \in 1 .. Len(html) :
    \A c \in DOMAIN html[t].cells :
      \E e \in ToSet(by_kernel[html[t].kernel]) :
        \E i \in 1 .. Len(e.cores) :
          /\ e.cores[i].num = c
          /\ \/ Label(e, 0) = html[t].name /\ html[t].cells[c] = e.cores[i].c0
             \/ Label(e, 1) = html[t].name /\ html[t].cells[c] = e.cores[i].c1

(* With -t, a dump whose kernels each report a fixed set of cores 0..n-1  *)
(* is reported without an exception in the matrix or the table code.     *)
ReportCompletes == phase # "crashed"

(* With -t, once the report is done, every event name the dump recorded  *)
(* for a kernel has a row in that kernel's table: remove_duplicate_events *)
(* only drops events already shown.                                        *)
AllEventsReported ==
  (phase = "done" /\ opt_t) =>
    \A k \in Kernels : \A e \in ToSet(by_kernel[k]) :
      \A n \in ToSet(NamesOf(e)) :
        \E t \in 1 .. Len(html) : html[t].kernel = k /\ html[t].name = n
=============================================================================

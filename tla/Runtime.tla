------------------------------- MODULE Runtime -------------------------------
(***************************************************************************)
(* The parts of the Lua runtime and of the C code of wowless that work on  *)
(* data of their own, side by side: the interpreter running what the       *)
(* compiler made of a program, a table with the functions of ltablib.c,    *)
(* table.sort, the stubs of API functions, the matcher of patterns and the *)
(* API functions that taint.  `part' is the one that is at work.           *)
(***************************************************************************)
EXTENDS Parser, Meaning, Tables, Sorting, Stubs, Patterns, Taint

CONSTANTS Compiled,    \* programs, as the compiler made them
          Meant        \* what each of these means

VARIABLES part, meant

IdleMachine == [status |-> "idle", log |-> <<>>, main |-> [asserts |-> TRUE]]
Idling == m = IdleMachine /\ meant = [status |-> "idle", log |-> <<>>]

NothingToSort ==
  /\ list = <<>> /\ order = (CHOOSE o \in DOMAIN Orders : TRUE)
  /\ sorted = NothingSorted

RuntimeInit ==
  /\ TablesInit /\ StubsInit /\ PatternsInit /\ TaintInit
  /\ \/ /\ part = "interpreter"
        /\ \E i \in DOMAIN Compiled : m = InitMachine(Compiled[i]) /\ meant = Meant[i]
        /\ NothingToSort
     \/ part = "sort" /\ SortInit /\ Idling
     \/ part \in {"table", "stubs", "patterns", "taint"} /\ NothingToSort /\ Idling

machine == <<m, meant>>
table == <<h, contents, trav, op, stores>>
sorting == <<list, order, sorted>>
vars == <<part, machine, table, sorting, call, search, c>>

Interpreter ==
  /\ part = "interpreter" /\ Step
  /\ UNCHANGED <<part, meant, table, sorting, call, search, c>>
TableCalls ==
  /\ part = "table" /\ TablesNext
  /\ UNCHANGED <<part, machine, sorting, call, search, c>>
Sort ==
  /\ part = "sort" /\ SortTable
  /\ UNCHANGED <<part, machine, table, call, search, c>>
StubCalls ==
  /\ part = "stubs" /\ StubsNext
  /\ UNCHANGED <<part, machine, table, sorting, search, c>>
PatternSearch ==
  /\ part = "patterns" /\ PatternsNext
  /\ UNCHANGED <<part, machine, table, sorting, call, c>>
TaintCalls ==
  /\ part = "taint" /\ TaintNext
  /\ UNCHANGED <<part, machine, table, sorting, call, search>>
RuntimeNext ==
  Interpreter \/ TableCalls \/ Sort \/ StubCalls \/ PatternSearch \/ TaintCalls
RuntimeSpec == RuntimeInit /\ [][RuntimeNext]_vars

(***************************************************************************)
(* The interpreter and the compiler.                                       *)
(***************************************************************************)

\* The instructions that lparser.c and lcode.c make of a program put out, run
\* by lvm.c, what the program means: the same values in the same order, and in
\* the end the same results or the same failure.  What it means is worked out
\* on its syntax (Meaning), without registers, jumps or instructions.
RunsAsMeant ==
  /\ IsPrefix(m.log, meant.log)
  /\ m.status # "run" => m.status = meant.status /\ m.log = meant.log

\* No lua_assert of lparser.c and lcode.c fails while a program is compiled,
\* registers are freed in the order in which they were taken, and what comes
\* out passes symbexec, the check of ldebug.c.
AssertsHold == m.main.asserts

\* The functions of ltablib.c that change a table, table.sort among them, do to
\* it what they promise.
LibraryMeans == LibraryDone /\ Sorted
=============================================================================

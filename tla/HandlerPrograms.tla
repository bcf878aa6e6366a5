---------------------------- MODULE HandlerPrograms ----------------------------
(***************************************************************************)
(* The operation handlers of the plugin's request loop, as programs: what  *)
(* each reads and changes in x64dbg, what it checks, and in which order.   *)
(* Handlers.tla gives the steps their meaning.  A program also says which  *)
(* looks of its target (breakpoint, bytes, register or file) it accepts,   *)
(* the effect of its command, the looks that confirm it, and the looks it  *)
(* may clean up.                                                           *)
(*                                                                         *)
(* Looks: "absent"; "mine" (exactly what the request names); "off" (with   *)
(* the request's name, but disabled or without its condition); "bare"      *)
(* (without a name); "foreign".                                            *)
(***************************************************************************)
EXTENDS Integers, Sequences

Looks == {"absent", "mine", "off", "bare", "foreign"}

Query(steps) == [steps |-> steps, accept |-> Looks, effect |-> "none", want |-> Looks, own |-> {}]
Change(steps, accept, effect, want, own) ==
  [steps |-> steps, accept |-> accept, effect |-> effect, want |-> want, own |-> own]

\* The address prologue: every address method resolves its address in a pause.
Resolve == <<"begin", "read", "check">>
Resolved(steps) == Resolve \o steps

\* What the breakpoint policies accept as the request's own.
Managed == {"mine", "off"}      \* ConditionalBreakpointOwned, ExceptionBreakpointOwned
Enabled == {"mine"}             \* ExceptionBreakpointMatches
Selected == {"mine", "off"}     \* HardwareBreakpointMatches, MemoryBreakpointMatches, plain software
RunToOwned == {"mine", "off"}   \* RunToBreakpointOwned
BareOrNamed == {"mine", "off", "bare"} \* cleanupCreated of exception.set takes an unnamed one too

-----------------------------------------------------------------------------
(* Queries.  "repeat" .. "loop" is read more than once.                     *)

debugger_snapshot == Query(<<"begin", "pause", "read", "repeat", "deadline", "read", "loop", "check", "ok">>)
memory_search == Query(<<"begin", "cursor", "read", "check", "repeat", "deadline", "readSome", "check", "loop",
                         "deadline", "check", "ok">>)
address_resolve == Query(Resolved(<<"ok">>))
functions_at == Query(Resolved(<<"read", "check", "ok">>))
assembly_preview == Query(Resolved(<<"read", "check", "ok">>))
evaluate_batch == Query(<<"begin", "repeat", "readSome", "loop", "check", "ok">>)
process_peb == Query(<<"begin", "read", "check", "ok">>)
context_arguments == Query(<<"begin", "read", "repeat", "read", "loop", "check", "ok">>)
expression_evaluate == Query(<<"begin", "read", "check", "ok">>)
memory_read == Query(Resolved(<<"read", "check", "ok">>))
registers_read == Query(<<"begin", "read", "check", "ok">>)
strings_search == Query(<<"begin", "cursor", "read", "repeat", "deadline", "readSome", "check", "loop",
                          "repeat", "deadline", "check", "loop", "check", "ok">>)
patches_list == Query(<<"begin", "cursor", "read", "read", "fingerprint", "repeat", "deadline", "read", "loop",
                        "check", "ok">>)
symbols_resolve == Query(<<"begin", "read", "repeat", "deadline", "read", "loop", "check", "ok">>)
Discovery == <<"begin", "cursor", "read">>
sections_list == Query(Discovery \o <<"read", "repeat", "deadline", "read", "loop", "check", "ok">>)
imports_list == Query(Discovery \o <<"read", "repeat", "deadline", "read", "loop", "check", "ok">>)
exports_list == Query(Discovery \o <<"read", "repeat", "deadline", "read", "loop", "check", "ok">>)
symbols_search == Query(Discovery \o <<"read", "repeat", "deadline", "read", "loop", "check", "ok">>)
functions_list == Query(Discovery \o <<"read", "repeat", "deadline", "loop", "repeat", "deadline", "read", "loop",
                                       "check", "ok">>)
references_to == Query(Resolved(<<"cursor", "read", "check", "ok">>))
callstack_read == Query(<<"begin", "read", "read", "check", "ok">>)
threads_list == Query(<<"begin", "cursor", "read", "check", "ok">>)
memory_map == Query(<<"begin", "cursor", "read", "repeat", "deadline", "check", "read", "loop", "check", "ok">>)
breakpoints_list == Query(<<"beginActive", "cursor", "repeat", "read", "loop", "checkActive", "ok">>)
modules_list == Query(<<"begin", "cursor", "read", "check", "ok">>)
disassembly_read == Query(Resolved(<<"repeat", "read", "loop", "check", "ok">>))

-----------------------------------------------------------------------------
(* Changes.                                                                 *)

\* Enable and disable: nothing is submitted when the breakpoint already is so.
ExceptionToggle == <<"begin", "look", "toggle", "fence", "verify", "checkDone", "ok">>
exception_enable == Change(ExceptionToggle, Managed, "enable", {"mine"}, {})
exception_disable == Change(ExceptionToggle, Managed, "disable", {"off"}, {})
AddressToggle == Resolved(<<"check", "look", "read", "toggle", "fence", "verify", "checkDone", "ok">>)
breakpoint_enable == Change(AddressToggle, Selected, "enable", {"mine"}, {})
breakpoint_disable == Change(AddressToggle, Selected, "disable", {"off"}, {})

exception_set == Change(<<"begin", "check", "look", "submit", "fence", "assign", "verifyOrCleanup",
                          "checkDone", "ok">>, {"absent"}, "createBare", {"mine"}, BareOrNamed)
exception_remove == Change(<<"begin", "check", "look", "submit", "fence", "verify", "checkDone", "ok">>,
                           Enabled, "delete", {"absent"}, {})
conditional_set == Change(Resolved(<<"check", "look", "submit", "fence", "assign", "verifyOrCleanup",
                                     "checkDone", "ok">>), {"absent"}, "createPart", {"mine"}, Managed)
conditional_remove == Change(Resolved(<<"check", "look", "submit", "fence", "verify", "checkDone", "ok">>),
                             Managed, "delete", {"absent"}, {})

\* Plain software breakpoints use a direct command.  Nothing is checked after they
\* are read back: the answer carries the generation of the moment ("okNow").
breakpoints_set == Change(Resolved(<<"check", "direct", "verify", "okNow">>), Looks, "create",
                          Looks \ {"absent"}, {})
breakpoints_remove == Change(Resolved(<<"check", "directUnlessAbsent", "verify", "okNow">>), Looks, "delete",
                             {"absent"}, {})

\* Hardware and memory breakpoints are queued and polled, without a fence.
hardware_set == Change(Resolved(<<"pause", "check", "look", "read", "queue", "poll", "checkDone", "ok">>),
                       {"absent"}, "create", {"mine"}, {})
hardware_remove == Change(Resolved(<<"pause", "check", "look", "queue", "poll", "checkDone", "ok">>),
                          Selected, "delete", {"absent"}, {})
memory_set == Change(Resolved(<<"check", "read", "look", "queue", "poll", "checkDone", "ok">>),
                     {"absent"}, "create", {"mine"}, {})
memory_remove == Change(Resolved(<<"check", "look", "queue", "poll", "checkDone", "ok">>),
                        Selected, "delete", {"absent"}, {})

\* A memory write is read back and answered without a check, too.
memory_write == Change(Resolved(<<"check", "directOrRefused", "verify", "okNow">>), Looks, "write", {"mine"}, {})
assembly_patch == Change(Resolved(<<"read", "check", "look", "directOrRefused", "verify", "checkDone", "ok">>),
                         {"absent"}, "write", {"mine"}, {})
patches_restore == Change(Resolved(<<"check", "look", "directVoid", "verify", "checkDone", "ok">>),
                          {"mine"}, "delete", {"absent"}, {})
registers_write == Change(<<"begin", "read", "check", "setContext", "recapture", "verify", "checkDone", "ok">>,
                          Looks, "write", {"mine"}, {})
\* The marker is read after the last check.
analysis_function == Change(Resolved(<<"read", "check", "submit", "fence", "checkDone", "marker",
                                       "okUnchecked">>), Looks, "create", Looks \ {"absent"}, {})

\* run_to: its own single-shot breakpoint, a run, and the breakpoint's removal.
run_to == Change(Resolved(<<"check", "read", "look", "alreadyThere", "submit", "fence", "verifyOrCleanup",
                            "checkOrCleanup", "run", "awaitStop", "pauseOrStop", "cleanup", "lastRead", "checkFinal",
                            "ok">>), {"absent"}, "create", {"mine"}, RunToOwned)

\* DumpMemory: `valid' before and after everything it does.
Dump == Resolved(<<"valid", "look", "createTemp", "repeat", "valid", "read", "valid", "writeTemp", "valid", "loop",
                   "flushTemp", "look", "valid", "publish", "ok">>)
memory_dump == Change(Dump, {"absent"}, "write", {"mine"}, {})
memory_dump_overwrite == Change(Dump, Looks, "write", {"mine"}, {})

Program ==
  [debugger_snapshot |-> debugger_snapshot, memory_search |-> memory_search,
   address_resolve |-> address_resolve, functions_at |-> functions_at,
   assembly_preview |-> assembly_preview, evaluate_batch |-> evaluate_batch,
   process_peb |-> process_peb, context_arguments |-> context_arguments,
   expression_evaluate |-> expression_evaluate, memory_read |-> memory_read,
   registers_read |-> registers_read, strings_search |-> strings_search,
   patches_list |-> patches_list, symbols_resolve |-> symbols_resolve,
   sections_list |-> sections_list, imports_list |-> imports_list,
   exports_list |-> exports_list, symbols_search |-> symbols_search,
   functions_list |-> functions_list, references_to |-> references_to,
   callstack_read |-> callstack_read, threads_list |-> threads_list,
   memory_map |-> memory_map, breakpoints_list |-> breakpoints_list,
   modules_list |-> modules_list, disassembly_read |-> disassembly_read,
   exception_enable |-> exception_enable, exception_disable |-> exception_disable,
   breakpoint_enable |-> breakpoint_enable, breakpoint_disable |-> breakpoint_disable,
   exception_set |-> exception_set, exception_remove |-> exception_remove,
   conditional_set |-> conditional_set, conditional_remove |-> conditional_remove,
   breakpoints_set |-> breakpoints_set, breakpoints_remove |-> breakpoints_remove,
   hardware_set |-> hardware_set, hardware_remove |-> hardware_remove,
   memory_set |-> memory_set, memory_remove |-> memory_remove, memory_write |-> memory_write,
   assembly_patch |-> assembly_patch, patches_restore |-> patches_restore,
   registers_write |-> registers_write, analysis_function |-> analysis_function,
   run_to |-> run_to, memory_dump |-> memory_dump, memory_dump_overwrite |-> memory_dump_overwrite]

-----------------------------------------------------------------------------
(* The rules that the programs keep, whatever else they do.  They speak of  *)
(* the order of steps only; TLC evaluates them for the table above, and     *)
(* Handlers_proofs shows what follows from them for every run of a handler. *)

CheckOps == {"check", "checkDone", "valid", "checkActive", "pause", "cursor", "fingerprint",
             "checkFinal", "deadline"}
ReadOps == {"read", "readSome", "lastRead", "poll", "recapture", "verify", "marker", "verifyOrCleanup"}
DirectOps == {"direct", "directUnlessAbsent", "directOrRefused", "directVoid", "setContext"}
QueueOps == {"submit", "queue", "toggle"}
FileOps == {"createTemp", "writeTemp", "flushTemp", "publish"}
CleanupOps == {"assign", "verifyOrCleanup", "checkOrCleanup", "run", "cleanup"}
StopOps == {"awaitStop", "pauseOrStop"}
EndOps == {"ok", "okNow", "okUnchecked"}
Ops == CheckOps \cup ReadOps \cup DirectOps \cup QueueOps \cup FileOps \cup CleanupOps \cup StopOps
       \cup EndOps \cup {"begin", "beginActive", "look", "repeat", "loop", "fence", "alreadyThere"}

\* Steps that pass only in the pause the handler began in, and those that what
\* was read before may not outlive.
SealOps == {"check", "checkDone", "valid", "checkActive", "pause", "checkFinal", "checkOrCleanup"}
BreakOps == ReadOps \cup StopOps \cup {"begin", "beginActive", "repeat"}

\* Position i of a program is behind a check, with no read in between.
Sealed(s, i) ==
  \E c \in 1..(i - 1) : s[c] \in SealOps /\ \A j \in (c + 1)..(i - 1) : s[j] \notin BreakOps

\* Position i is behind a step of the kind ops.
Behind(s, i, ops) == \E e \in 1..(i - 1) : s[e] \in ops

\* Position i may have the handler's own work behind it: changed or queued, and
\* not yet cleaned up.
ChangeOps == QueueOps \cup DirectOps \cup {"publish"}
Loaded(s, i) ==
  \E e \in 1..(i - 1) : s[e] \in ChangeOps /\ \A j \in e..(i - 1) : s[j] # "cleanup"

\* Steps that end with a definite error only if the handler has made nothing.
CarefulOps == CleanupOps \cup StopOps \cup EndOps \cup {"fence", "poll", "verify", "checkDone"}

\* What an effect can turn the target into.
MadeBy(effect) ==
  CASE effect = "create" -> {"mine"}
    [] effect = "createBare" -> {"bare", "mine", "off"}
    [] effect = "createPart" -> {"off", "mine"}
    [] effect = "enable" -> {"mine"}
    [] effect = "disable" -> {"off"}
    [] effect = "write" -> {"mine"}
    [] OTHER -> {}

\* The handlers that poll for the effect of a queued command, and the dumps.
Polled == {"hardware_set", "hardware_remove", "memory_set", "memory_remove", "run_to"}
Dumps == {"memory_dump", "memory_dump_overwrite"}

\* The handlers that name or complete a breakpoint after it was created; those
\* that call their failure definite although they have taken effect; and those
\* with an answer that no check follows its last read.
Assigners == {"exception_set", "conditional_set"}
Hasty == {"registers_write", "analysis_function"}
Unchecked == {"memory_write", "breakpoints_set", "breakpoints_remove", "analysis_function", "run_to"}

\* A program begins with a snapshot and ends with its answer, and a loop has a
\* repeat to go back to.
WellFormed(s) ==
  /\ s \in Seq(Ops)
  /\ Len(s) > 1
  /\ \A i \in 1..Len(s) : s[i] \in {"begin", "beginActive"} <=> i = 1
  /\ \A i \in 1..Len(s) : s[i] \in EndOps <=> i = Len(s)
  /\ \A i \in 1..Len(s) : s[i] = "loop" =>
       \E r \in 1..(i - 1) : s[r] = "repeat" /\ \A j \in (r + 1)..i : s[j] # "repeat"

\* What is answered was checked, but for the answers that are not; and a page is
\* not of a handler that moves on.
ChecksLast(m, s) ==
  /\ \A i \in 1..Len(s) : s[i] = "ok" => Sealed(s, i)
  /\ \A i \in 1..Len(s) :
       s[i] \in {"okNow", "okUnchecked", "alreadyThere", "awaitStop"} => m \in Unchecked
  /\ \A i, j \in 1..Len(s) : s[i] = "cursor" => s[j] \notin StopOps

\* A command is followed by its fence, or by polling to the end; there is
\* something to clean up only after it, and no second look or loop.
Fences(m, s) ==
  /\ \A i \in 1..Len(s) : s[i] \in {"submit", "toggle"} => s[i + 1] = "fence"
  /\ \A i \in 1..Len(s) : s[i] = "queue" =>
       m \in Polled /\ \A j \in (i + 1)..Len(s) : s[j] \in {"poll", "checkDone", "ok"}
  /\ \A i \in 1..Len(s) : s[i] \in CleanupOps => Behind(s, i, QueueOps)
  /\ \A i \in 1..Len(s) : Behind(s, i, QueueOps) => s[i] \notin {"look", "loop"}

\* Once it may have changed something, a handler takes only careful steps; what
\* it calls foreign is nothing it made.
Careful(p) ==
  LET s == p.steps
  IN /\ \A i \in 1..Len(s) : Loaded(s, i) => s[i] \in CarefulOps
     /\ \A i \in 1..Len(s) : s[i] # "setContext"
     /\ \A i \in 1..Len(s) : s[i] = "publish" => s[i + 1] = "ok" /\ p.effect = "write"
     /\ \A i \in 1..Len(s) :
          s[i] \in {"assign", "verifyOrCleanup"} => MadeBy(p.effect) \subseteq p.own

\* A handler that cleans up found nothing at first, and changes it by commands
\* only; an unnamed breakpoint is taken for its own by exception.set alone.
KeepsToOwn(m, p) ==
  LET s == p.steps
  IN /\ \A i \in 1..Len(s) :
          s[i] \in CleanupOps => p.own # {} /\ Behind(s, i, {"look"})
     /\ \A i \in 1..Len(s) :
          s[i] = "assign" => m \in Assigners /\ p.effect \in {"createBare", "createPart"}
     /\ p.own # {} =>
          /\ p.accept = {"absent"} /\ p.effect \in {"create", "createBare", "createPart"}
          /\ p.own \subseteq {"mine", "off", "bare"}
          /\ "bare" \in p.own => m = "exception_set"
          /\ \A i \in 1..Len(s) : s[i] \notin DirectOps \cup {"publish"}

\* What is removed was looked at before, and was not foreign.
Spares(p) ==
  LET s == p.steps
  IN /\ "foreign" \notin p.own
     /\ p.effect = "delete" =>
          \A i \in 1..Len(s) :
            s[i] \in QueueOps => Behind(s, i, {"look"}) /\ "foreign" \notin p.accept

\* A dump touches nothing but its files, and publishes what it has checked.
Dumping(s) ==
  \A i \in 1..Len(s) : /\ s[i] \notin QueueOps \cup DirectOps \cup CleanupOps \cup StopOps
                       /\ s[i] = "publish" => Sealed(s, i) /\ Behind(s, i, {"read"})

ASSUME ProgramsKeepTheRules ==
  \A m \in DOMAIN Program :
    /\ WellFormed(Program[m].steps)
    /\ ChecksLast(m, Program[m].steps)
    /\ Fences(m, Program[m].steps)
    /\ m \notin Hasty => Careful(Program[m])
    /\ KeepsToOwn(m, Program[m])
    /\ Spares(Program[m])
    /\ m \in Dumps => Dumping(Program[m].steps)

=============================================================================

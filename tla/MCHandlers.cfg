SPECIFICATION Spec
CONSTANTS
  MaxGeneration = 4
  MaxEdits = 2
  Calls = {"debugger_snapshot", "memory_search", "address_resolve", "functions_at", "assembly_preview", "evaluate_batch", "process_peb", "context_arguments", "expression_evaluate", "memory_read", "registers_read", "strings_search", "patches_list", "symbols_resolve", "sections_list", "imports_list", "exports_list", "symbols_search", "functions_list", "references_to", "callstack_read", "threads_list", "memory_map", "breakpoints_list", "modules_list", "disassembly_read", "exception_enable", "exception_disable", "breakpoint_enable", "breakpoint_disable", "exception_set", "exception_remove", "conditional_set", "conditional_remove", "breakpoints_set", "breakpoints_remove", "hardware_set", "hardware_remove", "memory_set", "memory_remove", "memory_write", "assembly_patch", "patches_restore", "registers_write", "analysis_function", "run_to", "memory_dump", "memory_dump_overwrite"}
INVARIANTS
  AnswerIsOfOnePause
  SettledMeansDone
  DefiniteLeavesNothing
  DumpIsAtomic
PROPERTIES
  CleanupSparesForeign
CHECK_DEADLOCK FALSE

---------------------------- MODULE MCThreadedDVM -----------------------------
(* Small programs for the two threads: three frames and an end, frames that
   cannot be built, appended or executed, and a loop without an end. *)
EXTENDS ThreadedDVM

MCPrograms == {[frames |-> 1, then |-> "end"],
               [frames |-> 4, then |-> "end"],
               [frames |-> 2, then |-> "throws_building"],
               [frames |-> 3, then |-> "throws_appending"],
               [frames |-> 2, then |-> "throws_executing"],
               [frames |-> 1, then |-> "endless"]}

MCInputs == {"EXEC_CURR_INSTR", "UNDO_PREV_INSTR", "EXEC_UNTIL_BP", "EXEC_UNTIL_END", "QUIT",
             "SHOW_IMD_NEXT_INSTR", "SHOW_IMD_LAST_INSTR",
             "SHOW_NEXT_INSTR", "SHOW_LAST_INSTR", "SHOW_CURR_INSTR", "RESET_DEBUGGER",
             "DISPLAY_IFRAMES", "EDIT", "MENU_QUIT"}

=============================================================================

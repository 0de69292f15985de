------------------------------ MODULE UndoStack ------------------------------
(***************************************************************************)
(* The bounded undo/redo container of src/core/undo_stack.rs.  The last    *)
(* element of each buffer is the one a click pops.  The shell's commands   *)
(* (TextUndoCommand) have empty apply() and undo() bodies, so a command is *)
(* just the data it carries.                                               *)
(***************************************************************************)
EXTENDS Naturals, Sequences

CONSTANT Cap   \* the number of commands kept; 256 in UndoStack::new

ASSUME CapAssumption == Cap \in Nat

VARIABLES
  undo_buf, redo_buf,
  stack_dirty          \* the container's own flag, which the shell never reads

stackVars == <<undo_buf, redo_buf, stack_dirty>>

StackInit == undo_buf = <<>> /\ redo_buf = <<>> /\ stack_dirty = FALSE

Top(buf) == buf[Len(buf)]

Pop(buf) == SubSeq(buf, 1, Len(buf) - 1)

\* push() pops the front while the buffer holds Cap commands or more.
MakeRoom(buf) ==
  IF Len(buf) < Cap THEN buf
  ELSE SubSeq(buf, Len(buf) - Cap + 2, Len(buf))

\* Mutant: a new command leaves the redo branch in place.
PushKeepingRedo(cmd) ==
  /\ undo_buf' = Append(MakeRoom(undo_buf), cmd)
  /\ stack_dirty' = TRUE
  /\ UNCHANGED redo_buf

\* A cap of zero records nothing, but the redo branch is dropped all the same.
Push(cmd) ==
  /\ undo_buf' = IF Cap = 0 THEN undo_buf ELSE Append(MakeRoom(undo_buf), cmd)
  /\ redo_buf' = <<>>
  /\ stack_dirty' = TRUE

\* Mutant: an undone command is not kept for redo.
UndoForgetting ==
  /\ undo_buf # <<>>
  /\ undo_buf' = Pop(undo_buf)
  /\ stack_dirty' = TRUE
  /\ UNCHANGED redo_buf

Undo ==
  /\ undo_buf # <<>>
  /\ undo_buf' = Pop(undo_buf)
  /\ redo_buf' = Append(redo_buf, Top(undo_buf))
  /\ stack_dirty' = TRUE

\* redo() appends to undo_buf without looking at the cap.
Redo ==
  /\ redo_buf # <<>>
  /\ undo_buf' = Append(undo_buf, Top(redo_buf))
  /\ redo_buf' = Pop(redo_buf)
  /\ stack_dirty' = TRUE
==============================================================================

----------------------------- MODULE AtomicSave -----------------------------
(***************************************************************************)
(* Writing a config file (save_config in core/config_writer.rs and         *)
(* atomic_save_text in shell.rs): a temporary file beside the target is    *)
(* written, synced when the text has parsed, and renamed over the target.  *)
(* Any step may fail, the process may die and the power may go between any *)
(* two, and other programs write the target meanwhile.                     *)
(***************************************************************************)
EXTENDS DurableFile

CONSTANTS
  Caller,    \* threads that call the writers
  Nothing    \* no work, no temporary file

Job == [path : Path, text : Text]

Temp == [text : Text, synced : BOOLEAN]

ASSUME NothingAssumption == Nothing \notin Text \cup Job \cup Temp

VARIABLES
  at,     \* where each caller is: "idle" or the step it has finished
  job,    \* the path and the text it works on
  temp    \* its temporary file

saveVars == <<at, job, temp>>

Idle(c) == at[c] = "idle"

Move(c, step) == at' = [at EXCEPT ![c] = step]

Begin(c, step, p, text) ==
  /\ Idle(c)
  /\ Move(c, step)
  /\ job' = [job EXCEPT ![c] = [path |-> p, text |-> text]]

\* A temporary file that was not renamed is unlinked when it is dropped.
Return(c) ==
  /\ Move(c, "idle")
  /\ job' = [job EXCEPT ![c] = Nothing]
  /\ temp' = [temp EXCEPT ![c] = Nothing]

\* The temporary file is created and written; nobody reads it before the rename.
WriteTemp(c) ==
  /\ at[c] = "saving"
  /\ Move(c, "written")
  /\ temp' = [temp EXCEPT ![c] = [text |-> job[c].text, synced |-> FALSE]]
  /\ UNCHANGED <<durableVars, job>>

\* Mutant: save_config does not sync either.
SyncsNothing(c) == FALSE

\* save_config syncs; the path for text that does not parse only flushes, which
\* does nothing for a file.
Syncs(c) == job[c].text \notin Invalid

SyncTemp(c) ==
  /\ at[c] = "written"
  /\ Move(c, "synced")
  /\ temp' = [temp EXCEPT ![c].synced = Syncs(c)]
  /\ UNCHANGED <<durableVars, job>>

\* A file that was renamed into place unsynced may be found empty later.
Persist(c) ==
  /\ at[c] = "synced"
  /\ Becomes(job[c].path, temp[c].text,
             IF temp[c].synced THEN {temp[c].text} ELSE {temp[c].text, Empty})
  /\ Return(c)

Saving == {"saving", "written", "synced"}

\* A step fails and the error is returned.
SaveFails(c) ==
  /\ at[c] \in Saving
  /\ Return(c)
  /\ UNCHANGED durableVars

\* The process is gone; its temporary files stay in the directory, unused.
Gone ==
  /\ at' = [c \in Caller |-> "idle"]
  /\ job' = [c \in Caller |-> Nothing]
  /\ temp' = [c \in Caller |-> Nothing]
==============================================================================

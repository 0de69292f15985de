------------------------------ MODULE NiriTool ------------------------------
(***************************************************************************)
(* The plugin that owns the config file (tools/niri/mod.rs): it loads a    *)
(* document and its index, saves the document back, validates it and       *)
(* generates a first config, beside the shell's own saves of the editor's  *)
(* text and other programs.  A ToolPlugin is Send and Sync; the mutex of   *)
(* its state is what orders callers.  The application calls it from one    *)
(* thread.                                                                 *)
(***************************************************************************)
EXTENDS AtomicSave, SemanticIndex

CONSTANTS
  Own,         \* config_paths()
  TextsOf,     \* the texts the user and other programs give to each path
  Document,    \* the nodes of each text that parses
  NoOne,       \* the mutex is free
  MaxOutside   \* bound: writes by other programs

ASSUME ToolAssumption ==
  /\ Own \in Path
  /\ TextsOf \in [Path -> SUBSET Text]
  /\ Default \in TextsOf[Own]
  /\ NoOne \notin Caller
  /\ MaxOutside \in Nat

ASSUME DocumentAssumption == \A text \in Text \ Invalid : Nested(Document[text])

VARIABLES
  active_path, doc, index,   \* NiriToolState, Nothing before the first load
  holder,                    \* the caller that holds the mutex
  outside                    \* counter of the bounded action

stateVars == <<active_path, doc, index>>
toolVars == <<stateVars, holder>>
vars == <<durableVars, saveVars, toolVars, outside>>

Unloaded ==
  /\ active_path = Nothing
  /\ doc = Nothing
  /\ index = Nothing

Init ==
  /\ DurableInit
  /\ \A p \in Path : file[p] \in TextsOf[p] \cup {Missing}
  /\ at = [c \in Caller |-> "idle"]
  /\ job = [c \in Caller |-> Nothing]
  /\ temp = [c \in Caller |-> Nothing]
  /\ Unloaded
  /\ holder = NoOne
  /\ outside = 0

Free == holder = NoOne

\* Mutant: the guard is kept when the save returns.
NotReleased(c) == UNCHANGED holder

Released(c) == holder' = IF holder = c THEN NoOne ELSE holder

------------------------------------------------------------------------------
(* Loading *)

\* Mutant: the path is remembered before the text is known to parse.
PathFirst(c, p) ==
  /\ IF file[p] \in Text \ Invalid THEN Begin(c, "loading", p, file[p])
                                   ELSE UNCHANGED <<at, job>>
  /\ active_path' = p
  /\ UNCHANGED <<doc, index>>

\* load_kdl reads and parses without the mutex; what fails returns here.
ReadAndParse(c, p) ==
  /\ file[p] \in Text \ Invalid
  /\ Begin(c, "loading", p, file[p])
  /\ UNCHANGED stateVars

LoadReads(c, p) ==
  /\ Idle(c)
  /\ ReadAndParse(c, p)
  /\ UNCHANGED <<durableVars, temp, holder, outside>>

\* Path, document and index change together, whatever was loaded meanwhile.
LoadCommits(c) ==
  /\ at[c] = "loading"
  /\ Free
  /\ active_path' = job[c].path
  /\ doc' = job[c].text
  /\ index' = BuildIndex(Document[job[c].text])
  /\ Return(c)
  /\ UNCHANGED <<durableVars, holder, outside>>

------------------------------------------------------------------------------
(* Saving *)

\* ToolPlugin::save holds the mutex until save_kdl has returned.
SaveDoc(c) ==
  /\ Free
  /\ doc # Nothing
  /\ Begin(c, "saving", active_path, doc)
  /\ holder' = c
  /\ UNCHANGED <<durableVars, temp, stateVars, outside>>

\* The shell saves the text of the editor; it takes no mutex.
SaveText(c, text) ==
  /\ Begin(c, "saving", Own, text)
  /\ UNCHANGED <<durableVars, temp, toolVars, outside>>

SaveSteps(c) ==
  /\ \/ (WriteTemp(c) \/ SyncTemp(c)) /\ UNCHANGED holder
     \/ (Persist(c) \/ SaveFails(c)) /\ Released(c)
  /\ UNCHANGED <<stateVars, outside>>

------------------------------------------------------------------------------
(* Validating and generating *)

\* Mutant: the mutex is held while the validator runs.
Validating(c) == holder' = c

\* The guard is dropped before the future is run.
DropsGuard(c) == UNCHANGED holder

\* validate and apply_saved run the validator on the document's text.
ValidateBegins(c) ==
  /\ Free
  /\ doc # Nothing
  /\ Begin(c, "validating", active_path, doc)
  /\ DropsGuard(c)
  /\ UNCHANGED <<durableVars, temp, stateVars, outside>>

ValidateReturns(c) ==
  /\ at[c] = "validating"
  /\ Return(c)
  /\ Released(c)
  /\ UNCHANGED <<durableVars, stateVars, outside>>

\* generate_default_config does not look whether the file exists: std::fs::write
\* truncates it, then writes.
GenerateCuts(c) ==
  /\ Begin(c, "generating", Own, Default)
  /\ Cut(Own)
  /\ UNCHANGED <<temp, toolVars, outside>>

GenerateEnds(c) ==
  /\ at[c] = "generating"
  /\ Fill(Own) \/ UNCHANGED durableVars
  /\ Return(c)
  /\ UNCHANGED <<toolVars, outside>>

------------------------------------------------------------------------------
(* What happens around the program *)

OtherProgram(p, content) ==
  /\ outside < MaxOutside
  /\ outside' = outside + 1
  /\ ReplaceOutside(p, content)
  /\ UNCHANGED <<saveVars, toolVars>>

Settles(p) ==
  /\ Settle(p)
  /\ UNCHANGED <<saveVars, toolVars, outside>>

\* The process aborts, or the machine loses power; it is started again.
Crash ==
  /\ PowerLoss \/ UNCHANGED durableVars
  /\ Gone
  /\ active_path' = Nothing
  /\ doc' = Nothing
  /\ index' = Nothing
  /\ holder' = NoOne
  /\ UNCHANGED outside

Call(c) ==
  \/ \E p \in Path : LoadReads(c, p)
  \/ SaveDoc(c)
  \/ \E text \in TextsOf[Own] : SaveText(c, text)
  \/ ValidateBegins(c)
  \/ GenerateCuts(c)

Runs(c) == LoadCommits(c) \/ SaveSteps(c) \/ ValidateReturns(c) \/ GenerateEnds(c)

Next ==
  \/ \E c \in Caller : Call(c) \/ Runs(c)
  \/ \E p \in Path :
       \/ Settles(p)
       \/ \E content \in TextsOf[p] \cup {Missing} : OtherProgram(p, content)
  \/ Crash

\* A save that has begun is carried on.  Nothing bounds the time the validator's
\* subprocess takes.
Fairness == \A c \in Caller : WF_vars(SaveSteps(c))

Spec == Init /\ [][Next]_vars

FairSpec == Spec /\ Fairness

------------------------------------------------------------------------------
(* Properties *)

Step == {"idle", "loading", "validating", "generating"} \cup Saving

\* The shape of the state; a temporary file exists only while its save runs, and
\* the mutex is held only by a caller that is saving.
TypeOK ==
  /\ file \in [Path -> Content]
  /\ past \in [Path -> SUBSET Content]
  /\ at \in [Caller -> Step]
  /\ \A c \in Caller :
       /\ IF at[c] = "idle" THEN job[c] = Nothing ELSE job[c] \in Job
       /\ IF at[c] \in Saving \ {"saving"}
          THEN temp[c] \in Temp
          ELSE temp[c] = Nothing
  /\ IF doc = Nothing THEN Unloaded ELSE doc \in Text \ Invalid /\ active_path \in Path
  /\ holder \in Caller \cup {NoOne}
  /\ holder \in Caller => at[holder] \in Saving
  /\ outside \in Nat

\* No file ever receives another file's text: the document belongs to the path
\* it will be saved to, through failing loads, loads that race, crashes and
\* files that were cut off.
NoMixing ==
  /\ doc # Nothing => doc \in TextsOf[active_path] \cup {Empty}
  /\ \A p \in Path : file[p] \in TextsOf[p] \cup {Empty, Missing}

\* The index in the tool answers for the document in the tool: every path of the
\* document is in it and leads to a node that has it, and no other path is there.
\* Of nodes that share a path the index has one.
IndexFindsNodes == doc # Nothing => Answers(index, Document[doc])

\* Temporary files, syncs and renames, failures, crashes and concurrent savers
\* come to no more than replacing whole texts.
ImplementsDurableFile == DurableSpec

\* The mutex is given back, even when the validator's subprocess never ends.
MutexIsReleased == \A c \in Caller : holder = c ~> holder # c
==============================================================================

--------------------------- MODULE NiriToolProofs ---------------------------
(***************************************************************************)
(* For every set of paths, callers and texts: the tool's state keeps its   *)
(* shape, no file receives another file's text, its index answers for its  *)
(* document, and the steps of all writers implement DurableFile.           *)
(*                                                                         *)
(* ToolInv adds to TypeOK what a step hands to a later one: the texts of a *)
(* path are the only ones its work, its temporary file and a power loss    *)
(* can bring, what is being loaded or saved by the tool parses, and a      *)
(* temporary file that is about to be renamed is synced unless its text    *)
(* does not parse.                                                         *)
(***************************************************************************)
EXTENDS NiriTool, NumberLemmas, SequenceTheorems, TLAPS

Theirs(p) == TextsOf[p] \cup {Empty}

\* A caller between two of its steps.
CallerOK(c) ==
  /\ IF at[c] = "idle" THEN job[c] = Nothing
                       ELSE job[c] \in Job /\ job[c].text \in Theirs(job[c].path)
  /\ IF at[c] \in {"written", "synced"}
     THEN temp[c] \in Temp /\ temp[c].text = job[c].text
     ELSE temp[c] = Nothing
  /\ at[c] = "loading" => job[c].text \notin Invalid
  /\ at[c] = "synced" => temp[c].synced = (job[c].text \notin Invalid)

CallersOK ==
  /\ at \in [Caller -> Step]
  /\ job \in [Caller -> Job \cup {Nothing}]
  /\ temp \in [Caller -> Temp \cup {Nothing}]
  /\ \A c \in Caller : CallerOK(c)

FilesOK ==
  /\ file \in [Path -> Content]
  /\ past \in [Path -> SUBSET Content]
  /\ \A p \in Path : past[p] \subseteq Theirs(p) \cup {Missing}
  /\ \A p \in Path : file[p] \in Theirs(p) \cup {Missing}

DocOK ==
  IF doc = Nothing THEN Unloaded
  ELSE active_path \in Path /\ doc \in Theirs(active_path) \ Invalid

MutexOK ==
  /\ holder \in Caller \cup {NoOne}
  /\ holder \in Caller => at[holder] \in Saving

ToolInv == FilesOK /\ CallersOK /\ DocOK /\ MutexOK /\ outside \in Nat

USE FileAssumption, NothingAssumption, ToolAssumption

\* What belongs to a path is a text.
LEMMA TheirsAreTexts == \A p \in Path : Theirs(p) \subseteq Text /\ Empty \in Theirs(p)
BY DEF Theirs

LEMMA InvGivesProperties == ToolInv => TypeOK /\ NoMixing
<1> SUFFICES ASSUME ToolInv PROVE TypeOK /\ NoMixing
  OBVIOUS
<1>1. NoMixing
  BY DEF ToolInv, FilesOK, DocOK, NoMixing, Theirs
<1>2. TypeOK
  <2>1. file \in [Path -> Content] /\ past \in [Path -> SUBSET Content] /\ at \in [Caller -> Step]
    BY DEF ToolInv, FilesOK, CallersOK
  <2>2. \A c \in Caller :
          /\ IF at[c] = "idle" THEN job[c] = Nothing ELSE job[c] \in Job
          /\ IF at[c] \in Saving \ {"saving"} THEN temp[c] \in Temp ELSE temp[c] = Nothing
    BY DEF ToolInv, CallersOK, CallerOK, Saving
  <2>3. IF doc = Nothing THEN Unloaded ELSE doc \in Text \ Invalid /\ active_path \in Path
    BY TheirsAreTexts DEF ToolInv, DocOK
  <2>4. QED
    BY <2>1, <2>2, <2>3 DEF ToolInv, MutexOK, TypeOK
<1>3. QED
  BY <1>1, <1>2

LEMMA InitInv == Init => ToolInv
<1> SUFFICES ASSUME Init PROVE ToolInv
  OBVIOUS
<1>1. FilesOK
  <2>1. /\ file \in [Path -> Content]
        /\ \A p \in Path : past[p] = {file[p]} /\ file[p] \in TextsOf[p] \cup {Missing}
        /\ past \in [Path -> SUBSET Content]
    BY DEF Init, DurableInit
  <2>2. QED
    BY <2>1 DEF FilesOK, Theirs
<1>2. CallersOK
  BY DEF Init, CallersOK, CallerOK, Step
<1>3. DocOK /\ MutexOK /\ outside \in Nat
  BY DEF Init, DocOK, MutexOK, Unloaded
<1>4. QED
  BY <1>1, <1>2, <1>3 DEF ToolInv

------------------------------------------------------------------------------
(* The files *)

\* A path that comes to hold its own texts leaves the files in order.
LEMMA BecomesKeepsFiles ==
  ASSUME FilesOK, NEW p \in Path, NEW now, NEW later,
         now \in Theirs(p) \cup {Missing}, later \subseteq Theirs(p) \cup {Missing},
         Becomes(p, now, later)
  PROVE  FilesOK'
<1>1. Theirs(p) \cup {Missing} \subseteq Content
  BY TheirsAreTexts DEF Content
<1>2. file' = [file EXCEPT ![p] = now] /\ past' = [past EXCEPT ![p] = past[p] \cup later]
  BY DEF Becomes
<1>3. file' \in [Path -> Content] /\ past' \in [Path -> SUBSET Content]
  BY <1>1, <1>2 DEF FilesOK
<1>4. ASSUME NEW q \in Path
      PROVE  past'[q] \subseteq Theirs(q) \cup {Missing} /\ file'[q] \in Theirs(q) \cup {Missing}
  BY <1>2 DEF FilesOK
<1>5. QED
  BY <1>3, <1>4 DEF FilesOK, Theirs

LEMMA SettleKeepsFiles ==
  ASSUME FilesOK, NEW p \in Path, Settle(p)
  PROVE  FilesOK'
<1>1. file' = file /\ past' = [past EXCEPT ![p] = {file[p]}]
  BY DEF Settle
<1>2. past' \in [Path -> SUBSET Content]
  BY <1>1 DEF FilesOK
<1>3. \A q \in Path : past'[q] \subseteq Theirs(q) \cup {Missing}
  BY <1>1 DEF FilesOK
<1>4. QED
  BY <1>1, <1>2, <1>3 DEF FilesOK, Theirs

LEMMA PowerLossKeepsFiles ==
  ASSUME FilesOK, PowerLoss
  PROVE  FilesOK'
<1>1. \A p \in Path : file'[p] \in Theirs(p) \cup {Missing}
  BY DEF FilesOK, PowerLoss
<1>2. file' \in [Path -> Content] /\ past' \in [Path -> SUBSET Content]
  BY DEF PowerLoss
<1>3. \A p \in Path : past'[p] \subseteq Theirs(p) \cup {Missing}
  BY <1>1 DEF PowerLoss
<1>4. QED
  BY <1>1, <1>2, <1>3 DEF FilesOK, Theirs

------------------------------------------------------------------------------
(* The callers *)

\* A step of one caller that leaves it in order leaves all of them in order.
LEMMA OneCallerMoves ==
  ASSUME CallersOK, NEW c \in Caller,
         NEW step \in Step, NEW work \in Job \cup {Nothing}, NEW tmp \in Temp \cup {Nothing},
         at' = [at EXCEPT ![c] = step],
         job' = [job EXCEPT ![c] = work],
         temp' = [temp EXCEPT ![c] = tmp],
         CallerOK(c)'
  PROVE  CallersOK'
<1>1. /\ at' \in [Caller -> Step]
      /\ job' \in [Caller -> Job \cup {Nothing}]
      /\ temp' \in [Caller -> Temp \cup {Nothing}]
  BY DEF CallersOK
<1>2. ASSUME NEW d \in Caller, d # c
      PROVE  CallerOK(d)'
  <2>1. at'[d] = at[d] /\ job'[d] = job[d] /\ temp'[d] = temp[d]
    BY <1>2 DEF CallersOK
  <2>2. CallerOK(d)
    BY DEF CallersOK
  <2>3. QED
    BY <2>1, <2>2 DEF CallerOK, Theirs
<1>3. QED
  BY <1>1, <1>2 DEF CallersOK

\* A call begins work on a text that belongs to its path.
LEMMA BeginKeepsCallers ==
  ASSUME CallersOK, NEW c \in Caller, NEW p \in Path, NEW text \in Theirs(p),
         NEW step \in {"loading", "saving", "validating", "generating"},
         step = "loading" => text \notin Invalid,
         Begin(c, step, p, text), UNCHANGED temp
  PROVE  CallersOK' /\ at'[c] = step /\ (\A d \in Caller : d # c => at'[d] = at[d])
<1> DEFINE work == [path |-> p, text |-> text]
<1>1. work \in Job
  BY TheirsAreTexts DEF Job
<1>2. at[c] = "idle" /\ temp[c] = Nothing
  BY DEF Begin, Idle, CallersOK, CallerOK
<1>3. /\ at' = [at EXCEPT ![c] = step]
      /\ job' = [job EXCEPT ![c] = work]
      /\ temp' = [temp EXCEPT ![c] = Nothing]
  BY <1>2 DEF Begin, Move, CallersOK
<1>4. at'[c] = step /\ job'[c] = work /\ temp'[c] = Nothing
  BY <1>3 DEF CallersOK
<1>5. CallerOK(c)'
  BY <1>1, <1>4 DEF CallerOK, Theirs
<1>6. step \in Step
  BY DEF Step, Saving
<1>7. CallersOK'
  BY <1>1, <1>3, <1>5, <1>6, OneCallerMoves
<1>8. QED
  BY <1>3, <1>4, <1>7 DEF CallersOK

LEMMA ReturnKeepsCallers ==
  ASSUME CallersOK, NEW c \in Caller, Return(c)
  PROVE  CallersOK' /\ at'[c] = "idle" /\ (\A d \in Caller : d # c => at'[d] = at[d])
<1>1. /\ at' = [at EXCEPT ![c] = "idle"]
      /\ job' = [job EXCEPT ![c] = Nothing]
      /\ temp' = [temp EXCEPT ![c] = Nothing]
  BY DEF Return, Move
<1>2. at'[c] = "idle" /\ job'[c] = Nothing /\ temp'[c] = Nothing
  BY <1>1 DEF CallersOK
<1>3. CallerOK(c)'
  BY <1>2 DEF CallerOK
<1>4. "idle" \in Step
  BY DEF Step
<1>5. CallersOK'
  BY <1>1, <1>3, <1>4, OneCallerMoves
<1>6. QED
  BY <1>1, <1>2, <1>5 DEF CallersOK

\* A step of a save short of its end.
LEMMA TempStepKeepsCallers ==
  ASSUME CallersOK, NEW c \in Caller, WriteTemp(c) \/ SyncTemp(c)
  PROVE  CallersOK' /\ at'[c] \in Saving /\ (\A d \in Caller : d # c => at'[d] = at[d])
<1>1. at[c] \in {"saving", "written"}
  BY DEF WriteTemp, SyncTemp
<1>2. job[c] \in Job /\ job[c].text \in Text /\ job[c].text \in Theirs(job[c].path)
  BY <1>1 DEF CallersOK, CallerOK, Job
<1>3. job' = [job EXCEPT ![c] = job[c]] /\ job'[c] = job[c]
  BY DEF CallersOK, WriteTemp, SyncTemp
<1>4. CASE WriteTemp(c)
  <2> DEFINE tmp == [text |-> job[c].text, synced |-> FALSE]
  <2>1. at' = [at EXCEPT ![c] = "written"] /\ temp' = [temp EXCEPT ![c] = tmp]
    BY <1>4 DEF WriteTemp, Move
  <2>2. tmp \in Temp /\ tmp.text = job[c].text
    BY <1>2 DEF Temp
  <2>3. at'[c] = "written" /\ temp'[c] = tmp
    BY <2>1 DEF CallersOK
  <2>4. CallerOK(c)'
    BY <1>2, <1>3, <2>2, <2>3 DEF CallerOK, Theirs
  <2>5. "written" \in Step
    BY DEF Step, Saving
  <2>6. CallersOK'
    BY <1>2, <1>3, <2>1, <2>2, <2>4, <2>5, OneCallerMoves
  <2>7. QED
    BY <2>1, <2>3, <2>6 DEF CallersOK, Saving
<1>5. CASE SyncTemp(c)
  <2> DEFINE tmp == [text |-> temp[c].text, synced |-> job[c].text \notin Invalid]
  <2>1. temp[c] \in Temp /\ temp[c].text = job[c].text /\ temp[c] \in Temp
    BY <1>5 DEF SyncTemp, CallersOK, CallerOK
  <2>2. [temp[c] EXCEPT !.synced = job[c].text \notin Invalid] = tmp
    BY <2>1 DEF Temp
  <2>3. at' = [at EXCEPT ![c] = "synced"] /\ temp' = [temp EXCEPT ![c] = tmp]
    BY <1>5, <2>2 DEF SyncTemp, Syncs, Move
  <2>4. tmp \in Temp /\ tmp.text = job[c].text /\ tmp.synced = (job[c].text \notin Invalid)
    BY <1>2, <2>1 DEF Temp
  <2>5. at'[c] = "synced" /\ temp'[c] = tmp
    BY <2>3 DEF CallersOK
  <2>6. CallerOK(c)'
    BY <1>2, <1>3, <2>4, <2>5 DEF CallerOK, Theirs
  <2>7. "synced" \in Step
    BY DEF Step, Saving
  <2>8. CallersOK'
    BY <1>2, <1>3, <2>3, <2>4, <2>6, <2>7, OneCallerMoves
  <2>9. QED
    BY <2>3, <2>5, <2>8 DEF CallersOK, Saving
<1>6. QED
  BY <1>4, <1>5

LEMMA GoneKeepsCallers == Gone => CallersOK'
BY DEF Gone, CallersOK, CallerOK, Step

------------------------------------------------------------------------------
(* The steps of the system *)

\* The step of one caller does not take another's mutex away.
LEMMA MutexStays ==
  ASSUME MutexOK, NEW c \in Caller, \A d \in Caller : d # c => at'[d] = at[d],
         \/ holder' = holder /\ (holder = c => at'[c] \in Saving)
         \/ holder' = c /\ at'[c] \in Saving
         \/ Released(c)
  PROVE  MutexOK'
BY DEF MutexOK, Released

LEMMA LoadStepInv ==
  ASSUME ToolInv, NEW c \in Caller,
         (\E p \in Path : LoadReads(c, p)) \/ LoadCommits(c)
  PROVE  ToolInv'
<1>1. CASE \E p \in Path : LoadReads(c, p)
  <2>1. PICK p \in Path : LoadReads(c, p)
    BY <1>1
  <2>2. /\ Begin(c, "loading", p, file[p]) /\ file[p] \notin Invalid /\ UNCHANGED temp
        /\ UNCHANGED <<durableVars, active_path, doc, index, holder, outside>>
    BY <2>1 DEF LoadReads, ReadAndParse, stateVars
  <2>3. file[p] \in Theirs(p)
    BY <2>1 DEF ToolInv, FilesOK, LoadReads, ReadAndParse
  <2>4. /\ CallersOK' /\ \A d \in Caller : d # c => at'[d] = at[d]
    BY <2>2, <2>3, BeginKeepsCallers DEF ToolInv
  <2>5. at[c] = "idle"
    BY <2>2 DEF Begin, Idle
  <2>6. MutexOK'
    BY <2>2, <2>4, <2>5, MutexStays DEF ToolInv, MutexOK, Saving
  <2>7. FilesOK' /\ DocOK'
    BY <2>2 DEF ToolInv, FilesOK, DocOK, Theirs, Unloaded, durableVars
  <2>8. QED
    BY <2>2, <2>4, <2>6, <2>7 DEF ToolInv
<1>2. CASE LoadCommits(c)
  <2>1. /\ at[c] = "loading" /\ holder = NoOne /\ UNCHANGED <<durableVars, holder, outside>>
        /\ Return(c) /\ active_path' = job[c].path /\ doc' = job[c].text
    BY <1>2 DEF LoadCommits, Free
  <2>2. /\ CallersOK' /\ \A d \in Caller : d # c => at'[d] = at[d]
    BY <2>1, ReturnKeepsCallers DEF ToolInv
  <2>3. job[c] \in Job /\ job[c].text \in Theirs(job[c].path) /\ job[c].text \notin Invalid
    BY <2>1 DEF ToolInv, CallersOK, CallerOK
  <2>4. DocOK'
    BY <2>1, <2>3, TheirsAreTexts DEF DocOK, Job, Theirs
  <2>5. MutexOK'
    BY <2>1, <2>2 DEF MutexOK
  <2>6. FilesOK'
    BY <2>1 DEF ToolInv, FilesOK, Theirs, durableVars
  <2>7. QED
    BY <2>1, <2>2, <2>4, <2>5, <2>6 DEF ToolInv
<1>3. QED
  BY <1>1, <1>2

LEMMA SaveBeginsInv ==
  ASSUME ToolInv, NEW c \in Caller,
         SaveDoc(c) \/ ValidateBegins(c) \/ \E text \in TextsOf[Own] : SaveText(c, text)
  PROVE  ToolInv'
<1>1. PICK step \in {"saving", "validating"}, p \in Path, text \in Text :
        text \in Theirs(p) /\ Begin(c, step, p, text)
  <2>1. CASE SaveDoc(c) \/ ValidateBegins(c)
    BY <2>1, TheirsAreTexts DEF SaveDoc, ValidateBegins, ToolInv, DocOK
  <2>2. CASE \E text \in TextsOf[Own] : SaveText(c, text)
    BY <2>2, TheirsAreTexts DEF SaveText, Theirs
  <2>3. QED
    BY <2>1, <2>2
<1>2. UNCHANGED <<temp, durableVars, active_path, doc, index, outside>>
  BY DEF SaveDoc, ValidateBegins, SaveText, stateVars, toolVars
<1>3. CallersOK' /\ at'[c] = step /\ \A d \in Caller : d # c => at'[d] = at[d]
  BY <1>1, <1>2, BeginKeepsCallers DEF ToolInv
<1>4. at[c] = "idle" /\ at[c] \notin Saving
  BY <1>1 DEF Begin, Idle, Saving
<1>5. \/ holder' = holder
      \/ holder' = c /\ at'[c] \in Saving
  <2>1. CASE SaveDoc(c)
    <3>1. at'[c] = "saving"
      BY <2>1 DEF SaveDoc, Begin, Move, ToolInv, CallersOK
    <3>2. QED
      BY <2>1, <3>1 DEF SaveDoc, Saving
  <2>2. QED
    BY <2>1 DEF ValidateBegins, DropsGuard, SaveText, toolVars
<1>6. MutexOK'
  BY <1>3, <1>4, <1>5, MutexStays DEF ToolInv, MutexOK
<1>7. FilesOK' /\ DocOK'
  BY <1>2 DEF ToolInv, FilesOK, DocOK, Theirs, Unloaded, durableVars
<1>8. QED
  BY <1>2, <1>3, <1>6, <1>7 DEF ToolInv

LEMMA SaveStepInv ==
  ASSUME ToolInv, NEW c \in Caller, SaveSteps(c)
  PROVE  ToolInv'
<1>1. UNCHANGED <<active_path, doc, index, outside>>
  BY DEF SaveSteps, stateVars
<1>2. DocOK'
  BY <1>1 DEF ToolInv, DocOK, Theirs, Unloaded
<1>3. CASE (WriteTemp(c) \/ SyncTemp(c)) /\ UNCHANGED holder
  <2>1. CallersOK' /\ at'[c] \in Saving /\ \A d \in Caller : d # c => at'[d] = at[d]
    BY <1>3, TempStepKeepsCallers DEF ToolInv
  <2>2. MutexOK'
    BY <1>3, <2>1, MutexStays DEF ToolInv
  <2>3. FilesOK'
    BY <1>3 DEF WriteTemp, SyncTemp, ToolInv, FilesOK, Theirs, durableVars
  <2>4. QED
    BY <1>1, <1>2, <2>1, <2>2, <2>3 DEF ToolInv
<1>4. CASE (Persist(c) \/ SaveFails(c)) /\ Released(c)
  <2>1. Return(c)
    BY <1>4 DEF Persist, SaveFails
  <2>2. CallersOK' /\ \A d \in Caller : d # c => at'[d] = at[d]
    BY <2>1, ReturnKeepsCallers DEF ToolInv
  <2>3. MutexOK'
    BY <1>4, <2>2, MutexStays DEF ToolInv
  <2>4. FilesOK'
    <3>1. CASE Persist(c)
      <4> DEFINE later == IF temp[c].synced THEN {temp[c].text} ELSE {temp[c].text, Empty}
      <4>1. job[c].path \in Path /\ temp[c].text \in Theirs(job[c].path)
        BY <3>1 DEF Persist, ToolInv, CallersOK, CallerOK, Job
      <4>2. later \subseteq Theirs(job[c].path) \cup {Missing}
        BY <4>1, TheirsAreTexts
      <4>3. Becomes(job[c].path, temp[c].text, later)
        BY <3>1 DEF Persist
      <4> HIDE DEF later
      <4>4. QED
        BY <4>1, <4>2, <4>3, BecomesKeepsFiles DEF ToolInv
    <3>2. CASE SaveFails(c)
      BY <3>2 DEF SaveFails, ToolInv, FilesOK, Theirs, durableVars
    <3>3. QED
      BY <1>4, <3>1, <3>2
  <2>5. QED
    BY <1>1, <1>2, <2>2, <2>3, <2>4 DEF ToolInv
<1>5. QED
  BY <1>3, <1>4 DEF SaveSteps

LEMMA OtherStepInv ==
  ASSUME ToolInv, NEW c \in Caller, GenerateCuts(c) \/ GenerateEnds(c) \/ ValidateReturns(c)
  PROVE  ToolInv'
<1>1. UNCHANGED <<active_path, doc, index, outside>>
  BY DEF GenerateCuts, GenerateEnds, ValidateReturns, stateVars, toolVars
<1>2. DocOK'
  BY <1>1 DEF ToolInv, DocOK, Theirs, Unloaded
<1>3. Own \in Path /\ Default \in Theirs(Own) /\ Empty \in Theirs(Own)
  BY DEF Theirs
<1>4. CASE GenerateCuts(c)
  <2>1. CallersOK' /\ at'[c] = "generating" /\ \A d \in Caller : d # c => at'[d] = at[d]
    BY <1>3, <1>4, BeginKeepsCallers DEF GenerateCuts, ToolInv
  <2>2. at[c] = "idle" /\ holder' = holder
    BY <1>4 DEF GenerateCuts, Begin, Idle, toolVars
  <2>3. MutexOK'
    BY <2>1, <2>2, MutexStays DEF ToolInv, MutexOK, Saving
  <2>4. FilesOK'
    BY <1>3, <1>4, BecomesKeepsFiles DEF GenerateCuts, Cut, ToolInv
  <2>5. QED
    BY <1>1, <1>2, <2>1, <2>3, <2>4 DEF ToolInv
<1>5. CASE GenerateEnds(c) \/ ValidateReturns(c)
  <2>1. Return(c) /\ at[c] \notin Saving
    BY <1>5 DEF GenerateEnds, ValidateReturns, Saving
  <2>2. CallersOK' /\ \A d \in Caller : d # c => at'[d] = at[d]
    BY <2>1, ReturnKeepsCallers DEF ToolInv
  <2>3. holder # c
    BY <2>1 DEF ToolInv, MutexOK
  <2>4. holder' = holder
    BY <1>5, <2>3 DEF GenerateEnds, ValidateReturns, Released, toolVars
  <2>5. MutexOK'
    BY <2>2, <2>3, <2>4, MutexStays DEF ToolInv
  <2>6. FilesOK'
    <3>1. CASE Fill(Own)
      BY <1>3, <3>1, BecomesKeepsFiles DEF Fill, ToolInv
    <3>2. CASE UNCHANGED durableVars
      BY <3>2 DEF ToolInv, FilesOK, Theirs, durableVars
    <3>3. QED
      BY <1>5, <3>1, <3>2 DEF GenerateEnds, ValidateReturns
  <2>7. QED
    BY <1>1, <1>2, <2>2, <2>5, <2>6 DEF ToolInv
<1>6. QED
  BY <1>4, <1>5

LEMMA WorldInv ==
  ASSUME ToolInv,
         \/ Crash
         \/ \E p \in Path : \/ Settles(p)
                            \/ \E content \in TextsOf[p] \cup {Missing} : OtherProgram(p, content)
  PROVE  ToolInv'
<1>1. CASE Crash
  <2>1. FilesOK'
    <3>1. CASE PowerLoss
      BY <3>1, PowerLossKeepsFiles DEF ToolInv
    <3>2. CASE UNCHANGED durableVars
      BY <3>2 DEF ToolInv, FilesOK, Theirs, durableVars
    <3>3. QED
      BY <1>1, <3>1, <3>2 DEF Crash
  <2>2. CallersOK'
    BY <1>1, GoneKeepsCallers DEF Crash
  <2>3. DocOK' /\ MutexOK' /\ outside' \in Nat
    BY <1>1 DEF Crash, DocOK, Unloaded, MutexOK, ToolInv
  <2>4. QED
    BY <2>1, <2>2, <2>3 DEF ToolInv
<1>2. ASSUME NEW p \in Path,
             \/ Settles(p)
             \/ \E content \in TextsOf[p] \cup {Missing} : OtherProgram(p, content)
      PROVE  ToolInv'
  <2>1. UNCHANGED <<at, job, temp, active_path, doc, index, holder>> /\ outside' \in Nat
    BY <1>2 DEF Settles, OtherProgram, saveVars, toolVars, stateVars, ToolInv
  <2>2. FilesOK'
    <3>1. CASE Settles(p)
      BY <3>1, SettleKeepsFiles DEF Settles, ToolInv
    <3>2. ASSUME NEW content \in TextsOf[p] \cup {Missing}, OtherProgram(p, content)
          PROVE  FilesOK'
      <4>1. content \in Theirs(p) \cup {Missing} /\ {content} \subseteq Theirs(p) \cup {Missing}
        BY DEF Theirs
      <4>2. QED
        BY <3>2, <4>1, BecomesKeepsFiles DEF OtherProgram, ReplaceOutside, ToolInv
    <3>3. QED
      BY <1>2, <3>1, <3>2
  <2>3. CallersOK' /\ DocOK' /\ MutexOK'
    BY <2>1 DEF ToolInv, CallersOK, CallerOK, DocOK, Unloaded, MutexOK, Theirs
  <2>4. QED
    BY <2>1, <2>2, <2>3 DEF ToolInv
<1>3. QED
  BY <1>1, <1>2

LEMMA StepInv == ToolInv /\ [Next]_vars => ToolInv'
<1> SUFFICES ASSUME ToolInv, [Next]_vars PROVE ToolInv'
  OBVIOUS
<1>1. ASSUME NEW c \in Caller, Call(c) \/ Runs(c)
      PROVE  ToolInv'
  BY <1>1, LoadStepInv, SaveBeginsInv, SaveStepInv, OtherStepInv DEF Call, Runs
<1>2. CASE UNCHANGED vars
  <2>1. UNCHANGED <<file, past, at, job, temp, active_path, doc, index, holder, outside>>
    BY <1>2 DEF vars, durableVars, saveVars, toolVars, stateVars
  <2>2. FilesOK' /\ CallersOK'
    BY <2>1 DEF ToolInv, FilesOK, CallersOK, CallerOK, Theirs
  <2>3. DocOK' /\ MutexOK' /\ outside' \in Nat
    BY <2>1 DEF ToolInv, DocOK, Unloaded, MutexOK, Theirs
  <2>4. QED
    BY <2>2, <2>3 DEF ToolInv
<1>3. QED
  BY <1>1, <1>2, WorldInv DEF Next

LEMMA ToolInvariant == Spec => []ToolInv
<1>1. QED
  BY InitInv, StepInv, PTL DEF Spec

\* The state of the tool and of every save keeps its shape: a temporary file
\* exists only while its save runs, and only a saving caller holds the mutex.
THEOREM ToolTyped == Spec => []TypeOK
<1>1. ToolInv => TypeOK
  BY InvGivesProperties
<1>2. QED
  BY <1>1, ToolInvariant, PTL

\* The tool never writes one file's text into another, whatever loads fail or
\* race and wherever a crash falls.
THEOREM FilesKeepTheirTexts == Spec => []NoMixing
<1>1. ToolInv => NoMixing
  BY InvGivesProperties
<1>2. QED
  BY <1>1, ToolInvariant, PTL

\* The index the tool holds is the one built from the document it holds, not
\* from the document of another load.
IndexOfDoc == doc # Nothing => index = BuildIndex(Document[doc])

THEOREM IndexBelongsToDocument == Spec => []IndexOfDoc
<1>1. Init => IndexOfDoc
  BY DEF Init, Unloaded, IndexOfDoc
<1>2. IndexOfDoc /\ [Next]_vars => IndexOfDoc'
  <2> SUFFICES ASSUME IndexOfDoc, [Next]_vars PROVE IndexOfDoc'
    OBVIOUS
  <2>1. ASSUME NEW c \in Caller, LoadCommits(c)
        PROVE  IndexOfDoc'
    BY <2>1 DEF LoadCommits, IndexOfDoc
  <2>2. ASSUME NEW c \in Caller, Call(c) \/ (Runs(c) /\ ~LoadCommits(c))
        PROVE  UNCHANGED <<doc, index>>
    <3>1. CASE Call(c)
      BY <3>1 DEF Call, LoadReads, ReadAndParse, SaveDoc, SaveText, ValidateBegins, GenerateCuts,
                  toolVars, stateVars
    <3>2. CASE Runs(c) /\ ~LoadCommits(c)
      BY <3>2 DEF Runs, SaveSteps, ValidateReturns, GenerateEnds, toolVars, stateVars
    <3>3. QED
      BY <2>2, <3>1, <3>2
  <2>3. ASSUME NEW p \in Path,
               \/ Settles(p)
               \/ \E content \in TextsOf[p] \cup {Missing} : OtherProgram(p, content)
        PROVE  UNCHANGED <<doc, index>>
    BY <2>3 DEF Settles, OtherProgram, toolVars, stateVars
  <2>4. CASE Crash
    BY <2>4 DEF Crash, IndexOfDoc
  <2>5. CASE UNCHANGED vars
    BY <2>5 DEF vars, toolVars, stateVars, IndexOfDoc
  <2>6. QED
    BY <2>1, <2>2, <2>3, <2>4, <2>5 DEF Next, IndexOfDoc
<1>3. QED
  BY <1>1, <1>2, PTL DEF Spec

------------------------------------------------------------------------------
(* What the index answers *)

\* The node of depth e on the way to node i.
Ancestor(d, i, e) == CHOOSE j \in Above(d, i) : d[j].depth = e

LEMMA OneAbove ==
  ASSUME NEW d, Nested(d), NEW i \in 1..Len(d),
         NEW j \in Above(d, i), NEW k \in Above(d, i), d[j].depth = d[k].depth
  PROVE  j = k
<1>1. Len(d) \in Nat /\ \A x \in 1..Len(d) : d[x].depth \in Nat
  BY DEF Nested
<1>2. j \in 1..i /\ k \in 1..i /\ d[j].depth \in Nat
  BY <1>1 DEF Above
<1>3. ~(j < k)
  <2>1. j < k => k \in j + 1 .. i
    BY <1>2
  <2> QED
    BY <1>2, <2>1 DEF Above
<1>4. ~(k < j)
  <2>1. k < j => j \in k + 1 .. i
    BY <1>2
  <2> QED
    BY <1>2, <2>1 DEF Above
<1> QED
  BY <1>2, <1>3, <1>4

\* Above the next node are that node and those above this one that it is deeper than.
LEMMA AboveNext ==
  ASSUME NEW d, Nested(d), NEW i \in 1..Len(d), i + 1 \in 1..Len(d), NEW j
  PROVE  j \in Above(d, i + 1) <=>
           j = i + 1 \/ (j \in Above(d, i) /\ d[j].depth < d[i + 1].depth)
<1>1. /\ Len(d) \in Nat /\ \A x \in 1..Len(d) : d[x].depth \in Nat
      /\ i \in Nat
  BY DEF Nested
<1>2. ASSUME j \in Above(d, i + 1), j # i + 1
      PROVE  j \in Above(d, i) /\ d[j].depth < d[i + 1].depth
  <2>1. j \in 1..i /\ j \in 1..Len(d) /\ i + 1 \in j + 1 .. i + 1
    BY <1>1, <1>2 DEF Above
  <2>2. d[i + 1].depth > d[j].depth
    BY <1>2, <2>1 DEF Above
  <2>3. \A k \in j + 1 .. i : d[k].depth > d[j].depth
    <3>1. \A k \in j + 1 .. i : k \in j + 1 .. i + 1
      BY <1>1, <2>1
    <3> QED
      BY <1>2, <3>1 DEF Above
  <2>4. d[j].depth <= d[i].depth
    <3>1. j = i \/ i \in j + 1 .. i
      BY <1>1, <2>1
    <3> QED
      BY <1>1, <2>1, <2>3, <3>1
  <2>5. d[j].depth < d[i + 1].depth
    BY <1>1, <2>1, <2>2
  <2> QED
    BY <2>1, <2>3, <2>4, <2>5 DEF Above
<1>3. ASSUME j = i + 1
      PROVE  j \in Above(d, i + 1)
  <2>1. j \in 1 .. i + 1 /\ \A k \in j + 1 .. i + 1 : FALSE
    BY <1>1, <1>3
  <2>2. d[j].depth <= d[i + 1].depth
    BY <1>1, <1>3
  <2> QED
    BY <2>1, <2>2 DEF Above
<1>4. ASSUME j \in Above(d, i), d[j].depth < d[i + 1].depth
      PROVE  j \in Above(d, i + 1)
  <2>1. j \in 1..i /\ j \in 1 .. i + 1 /\ j \in 1..Len(d)
    BY <1>1, <1>4 DEF Above
  <2>2. \A k \in j + 1 .. i + 1 : k = i + 1 \/ k \in j + 1 .. i
    BY <1>1, <2>1
  <2>3. \A k \in j + 1 .. i + 1 : d[k].depth > d[j].depth
    <3>1. d[i + 1].depth > d[j].depth
      BY <1>1, <1>4, <2>1
    <3> QED
      BY <1>4, <2>2, <3>1 DEF Above
  <2>4. d[j].depth <= d[i + 1].depth
    BY <1>1, <1>4, <2>1
  <2> QED
    BY <2>1, <2>3, <2>4 DEF Above
<1> QED
  BY <1>2, <1>3, <1>4

\* There is a node of every smaller depth above a node.
HasAncestors(d, i) == \A e \in 1 .. d[i].depth : \E j \in Above(d, i) : d[j].depth = e

LEMMA FirstHasAncestors ==
  ASSUME NEW d, Nested(d), 1 \in 1..Len(d)
  PROVE  HasAncestors(d, 1)
<1>1. d[1].depth = 1
  BY DEF Nested
<1>2. 1 \in Above(d, 1)
  BY <1>1 DEF Above
<1> QED
  BY <1>1, <1>2 DEF HasAncestors

LEMMA NextHasAncestors ==
  ASSUME NEW d, Nested(d), NEW i \in 1..Len(d), i + 1 \in 1..Len(d), HasAncestors(d, i)
  PROVE  HasAncestors(d, i + 1)
<1> SUFFICES ASSUME NEW e \in 1 .. d[i + 1].depth
             PROVE  \E j \in Above(d, i + 1) : d[j].depth = e
  BY DEF HasAncestors
<1>1. /\ d[i].depth \in Nat /\ d[i + 1].depth \in Nat
      /\ d[i + 1].depth <= d[i].depth + 1
  BY DEF Nested
<1>2. CASE e = d[i + 1].depth
  BY <1>2, AboveNext
<1>3. CASE e # d[i + 1].depth
  <2>1. e \in 1 .. d[i].depth /\ e < d[i + 1].depth
    BY <1>1, <1>3
  <2>2. PICK j \in Above(d, i) : d[j].depth = e
    BY <2>1 DEF HasAncestors
  <2> QED
    BY <2>1, <2>2, AboveNext
<1> QED
  BY <1>2, <1>3

LEMMA AllHaveAncestors ==
  ASSUME NEW d, Nested(d)
  PROVE  \A i \in 1..Len(d) : HasAncestors(d, i)
<1> DEFINE T == {i \in Nat : i + 1 \in 1..Len(d) => HasAncestors(d, i + 1)}
<1>1. 0 \in T
  BY FirstHasAncestors
<1>2. ASSUME NEW i \in T
      PROVE  i + 1 \in T
  <2> SUFFICES ASSUME (i + 1) + 1 \in 1..Len(d)
               PROVE  HasAncestors(d, (i + 1) + 1)
    OBVIOUS
  <2>1. i + 1 \in 1..Len(d)
    BY DEF Nested
  <2> QED
    BY <2>1, NextHasAncestors
<1>3. T = Nat
  <2>1. T \in SUBSET Nat
    OBVIOUS
  <2> HIDE DEF T
  <2> QED
    BY <1>1, <1>2, <2>1, NumberInduction
<1> QED
  <2> TAKE i \in 1..Len(d)
  <2>1. i - 1 \in Nat /\ (i - 1) + 1 = i
    BY DEF Nested
  <2>2. i - 1 \in T
    BY <1>3, <2>1
  <2> QED
    BY <2>1, <2>2

LEMMA AncestorIs ==
  ASSUME NEW d, Nested(d), NEW i \in 1..Len(d), NEW e \in 1 .. d[i].depth
  PROVE  Ancestor(d, i, e) \in Above(d, i) /\ d[Ancestor(d, i, e)].depth = e
<1>1. \E j \in Above(d, i) : d[j].depth = e
  BY AllHaveAncestors DEF HasAncestors
<1> QED
  BY <1>1 DEF Ancestor

\* The path of a node, in terms of its ancestors.
LEMMA PathByAncestors ==
  \A d, i : PathOf(d, i) = [e \in 1 .. d[i].depth |-> d[Ancestor(d, i, e)].name]
  BY DEF PathOf, Ancestor

Names(d) == {d[j].name : j \in 1..Len(d)}

LEMMA PathIsSeq ==
  ASSUME NEW d, Nested(d), NEW i \in 1..Len(d)
  PROVE  /\ PathOf(d, i) \in Seq(Names(d))
         /\ Len(PathOf(d, i)) = d[i].depth
<1>1. d[i].depth \in Nat /\ i \in 1..Len(d) /\ Len(d) \in Nat
  BY DEF Nested
<1>2. \A e \in 1 .. d[i].depth : d[Ancestor(d, i, e)].name \in Names(d)
  <2> TAKE e \in 1 .. d[i].depth
  <2>1. Ancestor(d, i, e) \in 1..i
    BY AncestorIs DEF Above
  <2>2. Ancestor(d, i, e) \in 1..Len(d)
    BY <1>1, <2>1
  <2> QED
    BY <2>2 DEF Names
<1> QED
  BY <1>1, <1>2, PathByAncestors

\* The names the walk has pushed at the next node are those of its path.
LEMMA NextPath ==
  ASSUME NEW d, Nested(d), NEW i \in 1..Len(d), i + 1 \in 1..Len(d)
  PROVE  PathOf(d, i + 1) = PrefixAt(PathOf(d, i), d[i + 1])
<1> DEFINE D == d[i + 1].depth
           p == PathOf(d, i)
           q == PathOf(d, i + 1)
           r == SubSeq(p, 1, D - 1)
<1>1. /\ D \in Nat /\ D >= 1 /\ d[i].depth \in Nat /\ D - 1 <= d[i].depth
      /\ i \in Nat
  BY DEF Nested
<1>2. /\ p \in Seq(Names(d)) /\ Len(p) = d[i].depth
      /\ q \in Seq(Names(d)) /\ Len(q) = D
  BY PathIsSeq
<1>3. \A e \in 1 .. D - 1 : q[e] = p[e]
  <2> TAKE e \in 1 .. D - 1
  <2>1. e \in 1 .. d[i].depth /\ e \in 1..D /\ e < D
    BY <1>1
  <2> DEFINE j == Ancestor(d, i, e)
             k == Ancestor(d, i + 1, e)
  <2>2. j \in Above(d, i) /\ d[j].depth = e /\ k \in Above(d, i + 1) /\ d[k].depth = e
    BY <2>1, AncestorIs
  <2> HIDE DEF j, k
  <2>3. k \in Above(d, i)
    BY <2>1, <2>2, AboveNext
  <2>4. j = k
    BY <2>2, <2>3, OneAbove
  <2>5. q[e] = d[k].name /\ p[e] = d[j].name
    BY <2>1, PathByAncestors DEF j, k
  <2> QED
    BY <2>4, <2>5
<1>4. q[D] = d[i + 1].name
  <2> DEFINE k == Ancestor(d, i + 1, D)
  <2>1. D \in 1..D
    BY <1>1
  <2>2. k \in Above(d, i + 1) /\ d[k].depth = D
    BY <2>1, AncestorIs
  <2>3. q[D] = d[k].name
    BY <2>1, PathByAncestors
  <2> HIDE DEF k
  <2>4. k = i + 1
    BY <1>1, <2>2, AboveNext
  <2> QED
    BY <2>3, <2>4
<1> HIDE DEF p, q
<1>5. r \in Seq(Names(d)) /\ Len(r) = D - 1 /\ \A e \in 1 .. D - 1 : r[e] = p[e]
  BY <1>1, <1>2
<1>6. d[i + 1].name \in Names(d)
  BY DEF Names
<1> HIDE DEF r, D
<1>7. q = Append(r, d[i + 1].name)
  <2> DEFINE s == Append(r, d[i + 1].name)
  <2>1. /\ s \in Seq(Names(d)) /\ Len(s) = D /\ s[D] = d[i + 1].name
        /\ \A e \in 1 .. D - 1 : s[e] = r[e]
    BY <1>1, <1>5, <1>6, AppendProperties
  <2> HIDE DEF s
  <2>2. \A e \in 1..D : q[e] = s[e]
    BY <1>1, <1>3, <1>4, <1>5, <2>1
  <2>3. q = s
    BY <1>2, <2>1, <2>2, SeqEqual
  <2> QED
    BY <2>3 DEF s
<1> QED
  BY <1>7 DEF PrefixAt, D, p, q, r

LEMMA FirstPath ==
  ASSUME NEW d, Nested(d), 1 \in 1..Len(d)
  PROVE  PathOf(d, 1) = PrefixAt(<<>>, d[1])
<1>1. d[1].depth = 1 /\ 1 \in 1 .. d[1].depth
  BY DEF Nested
<1>2. Ancestor(d, 1, 1) = 1
  BY <1>1, AncestorIs DEF Above
<1>3. PathOf(d, 1)[1] = d[1].name
  BY <1>1, <1>2, PathByAncestors
<1>4. PathOf(d, 1) \in Seq(Names(d)) /\ Len(PathOf(d, 1)) = 1
  BY <1>1, PathIsSeq
<1>5. PathOf(d, 1) = <<d[1].name>>
  <2>1. d[1].name \in Names(d)
    BY DEF Names
  <2>2. <<d[1].name>> \in Seq(Names(d)) /\ Len(<<d[1].name>>) = 1
    BY <2>1
  <2>3. \A e \in 1..1 : PathOf(d, 1)[e] = <<d[1].name>>[e]
    BY <1>3
  <2> QED
    BY <1>4, <2>2, <2>3, SeqEqual
<1>6. SubSeq(<<>>, 1, 0) = <<>>
  <2>1. \A s : \A m, n \in Int : n < m => SubSeq(s, m, n) = <<>>
    BY SubSeqEmpty
  <2>2. 1 \in Int /\ 0 \in Int /\ 0 < 1
    OBVIOUS
  <2> QED
    BY <2>1, <2>2, Zenon
<1>7. PrefixAt(<<>>, d[1]) = Append(<<>>, d[1].name)
  <2>1. d[1].depth - 1 = 0
    BY <1>1
  <2> QED
    BY <1>6, <2>1, Zenon DEF PrefixAt
<1>8. Append(<<>>, d[1].name) = <<d[1].name>>
  OBVIOUS
<1> QED
  BY <1>5, <1>7, <1>8

\* Of the first n nodes, k is the last one with that path.
IsLast(d, n, path, k) ==
  /\ k \in 1..n
  /\ PathOf(d, k) = path
  /\ \A j \in k + 1 .. n : PathOf(d, j) # path

Paths(d, n) == {PathOf(d, k) : k \in 1..n}

LEMMA OneLast ==
  ASSUME NEW d, NEW n \in Nat, NEW path, NEW j, NEW k, IsLast(d, n, path, j), IsLast(d, n, path, k)
  PROVE  j = k
<1>1. j \in 1..n /\ k \in 1..n
  BY DEF IsLast
<1>2. ~(j < k)
  <2>1. j < k => k \in j + 1 .. n
    BY <1>1
  <2> QED
    BY <2>1 DEF IsLast
<1>3. ~(k < j)
  <2>1. k < j => j \in k + 1 .. n
    BY <1>1
  <2> QED
    BY <2>1 DEF IsLast
<1> QED
  BY <1>1, <1>2, <1>3

\* The last node of a path after one node more.
LEMMA NextLast ==
  ASSUME NEW d, NEW n \in Nat, NEW path, NEW k
  PROVE  /\ PathOf(d, n + 1) = path => IsLast(d, n + 1, path, n + 1)
         /\ PathOf(d, n + 1) # path /\ IsLast(d, n, path, k) => IsLast(d, n + 1, path, k)
<1>1. ASSUME PathOf(d, n + 1) = path
      PROVE  IsLast(d, n + 1, path, n + 1)
  <2>1. n + 1 \in 1 .. n + 1 /\ \A j \in (n + 1) + 1 .. n + 1 : FALSE
    OBVIOUS
  <2> QED
    BY <1>1, <2>1 DEF IsLast
<1>2. ASSUME PathOf(d, n + 1) # path, IsLast(d, n, path, k)
      PROVE  IsLast(d, n + 1, path, k)
  <2>1. k \in 1..n
    BY <1>2 DEF IsLast
  <2>2. k \in 1 .. n + 1 /\ \A j \in k + 1 .. n + 1 : j = n + 1 \/ j \in k + 1 .. n
    BY <2>1
  <2> QED
    BY <1>2, <2>2 DEF IsLast
<1> QED
  BY <1>1, <1>2

LEMMA PathsHaveLast ==
  ASSUME NEW d, NEW n \in Nat
  PROVE  \A path \in Paths(d, n) : \E k : IsLast(d, n, path, k)
<1> DEFINE T == {m \in Nat : \A path \in Paths(d, m) : \E k : IsLast(d, m, path, k)}
<1>1. 0 \in T
  BY DEF Paths
<1>2. ASSUME NEW m \in T
      PROVE  m + 1 \in T
  <2> SUFFICES ASSUME NEW path \in Paths(d, m + 1)
               PROVE  \E k : IsLast(d, m + 1, path, k)
    OBVIOUS
  <2>1. CASE PathOf(d, m + 1) = path
    BY <2>1, NextLast
  <2>2. CASE PathOf(d, m + 1) # path
    <3>1. path \in Paths(d, m)
      BY <2>2 DEF Paths
    <3>2. PICK k : IsLast(d, m, path, k)
      BY <3>1
    <3> QED
      BY <2>2, <3>2, NextLast
  <2> QED
    BY <2>1, <2>2
<1>3. T = Nat
  <2>1. T \in SUBSET Nat
    OBVIOUS
  <2> HIDE DEF T
  <2> QED
    BY <1>1, <1>2, <2>1, NumberInduction
<1>4. n \in T
  BY <1>3
<1> QED
  BY <1>4

\* What the index holds after n nodes.
Found(d, n) == [path \in Paths(d, n) |-> CHOOSE k : IsLast(d, n, path, k)]

LEMMA FoundIsLast ==
  ASSUME NEW d, NEW n \in Nat, NEW path \in Paths(d, n)
  PROVE  IsLast(d, n, path, Found(d, n)[path])
<1>1. \E k : IsLast(d, n, path, k)
  BY PathsHaveLast
<1> QED
  BY <1>1 DEF Found

\* The index found so far with node i under its path.
With(found, path, i) ==
  [p \in DOMAIN found \cup {path} |-> IF p = path THEN i ELSE found[p]]

LEMMA FoundNext ==
  ASSUME NEW d, NEW n \in Nat
  PROVE  Found(d, n + 1) = With(Found(d, n), PathOf(d, n + 1), n + 1)
<1> DEFINE last == PathOf(d, n + 1)
<1>1. Paths(d, n + 1) = Paths(d, n) \cup {last}
  <2>1. 1 .. n + 1 = (1..n) \cup {n + 1}
    OBVIOUS
  <2> QED
    BY <2>1 DEF Paths
<1>2. ASSUME NEW p \in Paths(d, n + 1)
      PROVE  Found(d, n + 1)[p] = IF p = last THEN n + 1 ELSE Found(d, n)[p]
  <2>1. IsLast(d, n + 1, p, Found(d, n + 1)[p])
    BY <1>2, FoundIsLast
  <2>2. CASE p = last
    <3>1. IsLast(d, n + 1, p, n + 1)
      BY <2>2, NextLast
    <3>2. n + 1 \in Nat
      OBVIOUS
    <3> QED
      BY <2>1, <2>2, <3>1, <3>2, OneLast
  <2>3. CASE p # last
    <3>1. p \in Paths(d, n)
      BY <1>1, <1>2, <2>3
    <3>2. IsLast(d, n, p, Found(d, n)[p])
      BY <3>1, FoundIsLast
    <3>3. IsLast(d, n + 1, p, Found(d, n)[p])
      BY <2>3, <3>2, NextLast
    <3>4. n + 1 \in Nat
      OBVIOUS
    <3> QED
      BY <2>1, <2>3, <3>3, <3>4, OneLast
  <2> QED
    BY <2>2, <2>3
<1>3. DOMAIN Found(d, n) = Paths(d, n) /\ DOMAIN Found(d, n + 1) = Paths(d, n + 1)
  BY DEF Found
<1>4. Found(d, n + 1) = [p \in Paths(d, n + 1) |-> Found(d, n + 1)[p]]
  BY DEF Found
<1> HIDE DEF last
<1>5. Found(d, n + 1) = [p \in Paths(d, n + 1) |-> IF p = last THEN n + 1 ELSE Found(d, n)[p]]
  BY <1>2, <1>4
<1> QED
  BY <1>1, <1>3, <1>5 DEF last, With

WalkIs(d, w) ==
  w = [i \in 0..Len(d) |->
         IF i = 0 THEN [prefix |-> <<>>, entries |-> [p \in {} |-> 0]]
         ELSE WalkNode(w[i - 1], d, i)]

\* The walk has pushed the path of the node it has come to.
Walked(d, i) ==
  [prefix |-> IF i = 0 THEN <<>> ELSE PathOf(d, i), entries |-> Found(d, i)]

LEMMA NothingWalked ==
  ASSUME NEW d
  PROVE  Walked(d, 0) = [prefix |-> <<>>, entries |-> [p \in {} |-> 0]]
<1>1. Paths(d, 0) = {}
  BY DEF Paths
<1>2. Found(d, 0) = [p \in {} |-> 0]
  BY <1>1 DEF Found
<1> QED
  BY <1>2 DEF Walked

LEMMA NextWalked ==
  ASSUME NEW d, Nested(d), NEW i \in Nat, i + 1 \in 1..Len(d)
  PROVE  Walked(d, i + 1) = WalkNode(Walked(d, i), d, i + 1)
<1> DEFINE path == PrefixAt(Walked(d, i).prefix, d[i + 1])
<1>1. path = PathOf(d, i + 1)
  <2>1. CASE i = 0
    BY <2>1, FirstPath DEF Walked
  <2>2. CASE i # 0
    <3>1. i \in 1..Len(d)
      BY <2>2 DEF Nested
    <3> QED
      BY <2>2, <3>1, NextPath DEF Walked
  <2> QED
    BY <2>1, <2>2
<1>2. WalkNode(Walked(d, i), d, i + 1) =
        [prefix |-> PathOf(d, i + 1),
         entries |-> With(Found(d, i), PathOf(d, i + 1), i + 1)]
  BY <1>1 DEF WalkNode, Walked, With
<1>3. Walked(d, i + 1) = [prefix |-> PathOf(d, i + 1), entries |-> Found(d, i + 1)]
  <2>1. i + 1 # 0
    OBVIOUS
  <2> QED
    BY <2>1 DEF Walked
<1>4. Found(d, i + 1) = With(Found(d, i), PathOf(d, i + 1), i + 1)
  BY FoundNext
<1> QED
  BY <1>2, <1>3, <1>4, Zenon

LEMMA WalkGoes ==
  ASSUME NEW d, Nested(d)
  PROVE  BuildIndex(d) = Found(d, Len(d))
<1> DEFINE N == Len(d)
           chosen == CHOOSE w : WalkIs(d, w)
           all == [i \in 0..N |-> Walked(d, i)]
<1>1. N \in Nat
  BY DEF Nested
<1>2. BuildIndex(d) = chosen[N].entries
  BY SMT DEF BuildIndex, WalkIs
<1>3. WalkIs(d, all)
  <2>1. ASSUME NEW i \in 0..N, i # 0
        PROVE  Walked(d, i) = WalkNode(all[i - 1], d, i)
    <3>1. i - 1 \in Nat /\ (i - 1) + 1 = i /\ i \in 1..Len(d) /\ i - 1 \in 0..N
      BY <1>1, <2>1
    <3> QED
      BY <3>1, NextWalked
  <2>2. \A i \in 0..N : all[i] = IF i = 0 THEN [prefix |-> <<>>, entries |-> [p \in {} |-> 0]]
                                ELSE WalkNode(all[i - 1], d, i)
    BY <2>1, NothingWalked
  <2>3. all = [i \in 0..N |-> all[i]]
    OBVIOUS
  <2> HIDE DEF all
  <2> QED
    BY <2>2, <2>3 DEF WalkIs
<1>4. WalkIs(d, chosen)
  <2> HIDE DEF all
  <2> QED
    BY <1>3, Zenon
<1> HIDE DEF chosen
<1> DEFINE T == {i \in Nat : i <= N => chosen[i] = Walked(d, i)}
<1>5. 0 \in T
  BY <1>1, <1>4, NothingWalked DEF WalkIs
<1>6. ASSUME NEW i \in T
      PROVE  i + 1 \in T
  <2> SUFFICES ASSUME i + 1 <= N
               PROVE  chosen[i + 1] = Walked(d, i + 1)
    OBVIOUS
  <2>1. i + 1 \in 0..N /\ i + 1 # 0 /\ (i + 1) - 1 = i /\ i <= N /\ i + 1 \in 1..Len(d)
    BY <1>1
  <2>2. chosen[i + 1] = WalkNode(chosen[i], d, i + 1)
    BY <1>4, <2>1 DEF WalkIs
  <2>3. chosen[i] = Walked(d, i)
    BY <2>1
  <2> QED
    BY <2>1, <2>2, <2>3, NextWalked
<1>7. T = Nat
  <2>1. T \in SUBSET Nat
    OBVIOUS
  <2> HIDE DEF T
  <2> QED
    BY <1>5, <1>6, <2>1, NumberInduction
<1>8. chosen[N] = Walked(d, N)
  BY <1>1, <1>7
<1> QED
  BY <1>2, <1>8 DEF Walked

\* What the walk builds answers for the document.
LEMMA IndexAnswers ==
  ASSUME NEW d, Nested(d)
  PROVE  Answers(BuildIndex(d), d)
<1> DEFINE N == Len(d)
           entries == Found(d, N)
<1>1. DOMAIN d = 1..N /\ N \in Nat
  BY DEF Nested
<1>2. BuildIndex(d) = entries
  BY WalkGoes
<1>3. DOMAIN entries = Paths(d, N)
  BY DEF Found
<1>4. Paths(d, N) = {PathOf(d, i) : i \in DOMAIN d}
  BY <1>1 DEF Paths
<1>5. ASSUME NEW path \in Paths(d, N)
      PROVE  entries[path] \in DOMAIN d /\ PathOf(d, entries[path]) = path
  <2>1. IsLast(d, N, path, entries[path])
    BY <1>1, FoundIsLast
  <2> QED
    BY <1>1, <2>1 DEF IsLast
<1> HIDE DEF entries
<1> QED
  BY <1>2, <1>3, <1>4, <1>5 DEF Answers

\* The index in the tool answers for the document in the tool, whatever was
\* loaded meanwhile: every path of the document is in it and leads to a node that
\* has it, and no other path is there.
THEOREM IndexIsRight == Spec => []IndexFindsNodes
<1>1. ToolInv /\ IndexOfDoc => IndexFindsNodes
  <2> SUFFICES ASSUME ToolInv, IndexOfDoc, doc # Nothing
               PROVE  Answers(index, Document[doc])
    BY DEF IndexFindsNodes
  <2>1. doc \in Text \ Invalid
    BY InvGivesProperties DEF TypeOK
  <2>2. Nested(Document[doc])
    BY <2>1, DocumentAssumption
  <2> QED
    BY <2>2, IndexAnswers DEF IndexOfDoc
<1>2. QED
  BY <1>1, ToolInvariant, IndexBelongsToDocument, PTL

------------------------------------------------------------------------------
(* The refinement *)

LEMMA PersistReplaces ==
  ASSUME ToolInv, NEW c \in Caller, Persist(c)
  PROVE  DurableNext
<1> DEFINE p == job[c].path
           text == job[c].text
<1>1. at[c] = "synced"
  BY DEF Persist
<1>2. /\ p \in Path /\ text \in Text
      /\ temp[c].text = text /\ temp[c].synced = (text \notin Invalid)
  BY <1>1 DEF ToolInv, CallersOK, CallerOK, Job
<1>3. Becomes(p, text, IF temp[c].synced THEN {text} ELSE {text, Empty})
  BY <1>2 DEF Persist
<1>4. (IF temp[c].synced THEN {text} ELSE {text, Empty})
        = (IF text \in Invalid THEN {text, Empty} ELSE {text})
  BY <1>2
<1>5. Replace(p, text)
  BY <1>3, <1>4 DEF Replace
<1>6. QED
  BY <1>2, <1>5 DEF DurableNext

LEMMA StepsAreDurable == ToolInv /\ [Next]_vars => [DurableNext]_durableVars
<1> SUFFICES ASSUME ToolInv, [Next]_vars PROVE [DurableNext]_durableVars
  OBVIOUS
<1>1. ASSUME NEW c \in Caller, Call(c)
      PROVE  [DurableNext]_durableVars
  <2>1. CASE GenerateCuts(c)
    BY <2>1 DEF GenerateCuts, DurableNext
  <2>2. CASE ~GenerateCuts(c)
    BY <1>1, <2>2 DEF Call, LoadReads, SaveDoc, SaveText, ValidateBegins
  <2>3. QED
    BY <2>1, <2>2
<1>2. ASSUME NEW c \in Caller, Runs(c)
      PROVE  [DurableNext]_durableVars
  <2>1. CASE Persist(c)
    BY <2>1, PersistReplaces
  <2>2. CASE SaveSteps(c) /\ ~Persist(c)
    BY <2>2 DEF SaveSteps, WriteTemp, SyncTemp, SaveFails
  <2>3. CASE LoadCommits(c) \/ ValidateReturns(c)
    BY <2>3 DEF LoadCommits, ValidateReturns
  <2>4. CASE GenerateEnds(c)
    BY <2>4 DEF GenerateEnds, DurableNext
  <2>5. QED
    BY <1>2, <2>1, <2>2, <2>3, <2>4 DEF Runs
<1>3. ASSUME NEW p \in Path,
             \/ Settles(p)
             \/ \E content \in TextsOf[p] \cup {Missing} : OtherProgram(p, content)
      PROVE  DurableNext
  <2>1. TextsOf[p] \cup {Missing} \subseteq Content
    BY DEF Content
  <2>2. QED
    BY <1>3, <2>1 DEF Settles, OtherProgram, DurableNext
<1>4. CASE Crash
  BY <1>4 DEF Crash, DurableNext
<1>5. CASE UNCHANGED vars
  BY <1>5 DEF vars
<1>6. QED
  BY <1>1, <1>2, <1>3, <1>4, <1>5 DEF Next

\* However saves, loads, crashes and other programs interleave, the files go
\* through steps of DurableFile: whole texts, old or new, and cut off at most
\* where the text did not parse or was generated.
THEOREM ToolImplementsDurableFile == Spec => ImplementsDurableFile
<1>1. Init => DurableInit
  BY DEF Init
<1>2. QED
  BY <1>1, ToolInvariant, StepsAreDurable, PTL DEF Spec, DurableSpec, ImplementsDurableFile
==============================================================================

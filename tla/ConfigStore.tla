------------------------------ MODULE ConfigStore ------------------------------
(* The two files ConfigService keeps: config.txt (config.cpp) and the kernel  *)
(* command line cmdline.txt (cmdline.cpp).  A Set changes memory and marks it *)
(* dirty, from any task or from an interrupt; the task saves later.           *)
EXTENDS Naturals

CONSTANTS MaxChanges,   \* bound: Sets of each file
          Empty,        \* a file that was truncated and not yet written
          Partial       \* a file whose writing was cut short

ASSUME ChangesAssumption == MaxChanges \in Nat

Stores == {"config", "cmdline"}

VARIABLES
    value,   \* value[s]: version of the settings in memory
    dirty,
    file,    \* file[s]: the version on the card, or Empty or Partial
    failed,  \* history: the last save of s did not write it
    save,    \* where ConfigService::Save is, and in which store
    booted   \* FALSE: the constructor's assertion stopped the boot

storeVars == <<value, dirty, file, failed, save, booted>>

SaveSteps == {"None", "Save", "Open", "Write"}
NotSaving == [store |-> "config", step |-> "None"]

\* mutant of IsDirty: only config.txt is looked at.
IsDirtyConfig == dirty["config"]

IsDirty == \E s \in Stores : dirty[s]

At(step) == save.step = step
GoTo(s, step) == save' = [store |-> s, step |-> step]

\* SetString / SetNumber / SetValue / DeleteValue with something new to say.
SetValue(s) ==
    /\ booted /\ value[s] < MaxChanges
    /\ value' = [value EXCEPT ![s] = @ + 1]
    /\ dirty' = [dirty EXCEPT ![s] = TRUE]
    /\ UNCHANGED <<file, failed, save, booted>>

\* mutant of Cleared: one flag for both files.
ClearedBoth(s) == [t \in Stores |-> FALSE]

Cleared(s) == [dirty EXCEPT ![s] = FALSE]

\* Save of one store: not dirty is a success; dirty is cleared before the file
\* is opened, and stays clear when the save fails.
SaveStore ==
    /\ At("Save")
    /\ IF dirty[save.store]
       THEN /\ dirty' = Cleared(save.store)
            /\ GoTo(save.store, "Open")
       ELSE /\ IF save.store = "config" THEN GoTo("cmdline", "Save")
                                        ELSE save' = NotSaving
            /\ UNCHANGED dirty
    /\ UNCHANGED <<value, file, failed, booted>>

\* Opening for writing truncates.  When config.txt cannot be opened cmdline.txt
\* is left to the next round.
OpenStore ==
    /\ At("Open")
    /\ \/ /\ file' = [file EXCEPT ![save.store] = Empty]
          /\ GoTo(save.store, "Write")
          /\ UNCHANGED failed
       \/ /\ failed' = [failed EXCEPT ![save.store] = TRUE]
          /\ save' = NotSaving
          /\ UNCHANGED file
    /\ UNCHANGED <<value, dirty, booted>>

\* What memory holds now is written, or less of it.  The writer of config.txt
\* does not report a short write, that of cmdline.txt does, to nobody.
WriteStore ==
    /\ At("Write")
    /\ \E content \in {value[save.store], Empty, Partial} :
          /\ file' = [file EXCEPT ![save.store] = content]
          /\ failed' = [failed EXCEPT ![save.store] = content \in {Empty, Partial}]
    /\ IF save.store = "config" THEN GoTo("cmdline", "Save") ELSE save' = NotSaving
    /\ UNCHANGED <<value, dirty, booted>>

StartSave ==
    /\ At("None") /\ IsDirty
    /\ GoTo("config", "Save")
    /\ UNCHANGED <<value, dirty, file, failed, booted>>

Saving == SaveStore \/ OpenStore \/ WriteStore

\* The constructor loads both files after a restart.  What is missing takes its
\* default, but an empty cmdline.txt does not load, which is asserted.
Loaded(s) == IF file[s] \in {Empty, Partial} THEN 0 ELSE file[s]
StoreRestart ==
    /\ value' = [s \in Stores |-> Loaded(s)]
    /\ dirty' = [s \in Stores |-> FALSE]
    /\ failed' = [s \in Stores |-> file[s] \in {Empty, Partial}]
    /\ save' = NotSaving
    /\ booted' = (file["cmdline"] # Empty)
    /\ UNCHANGED file

StoreInit ==
    /\ value = [s \in Stores |-> 0]
    /\ dirty = [s \in Stores |-> FALSE]
    /\ file = [s \in Stores |-> 0]
    /\ failed = [s \in Stores |-> FALSE]
    /\ save = NotSaving
    /\ booted = TRUE
=============================================================================

----------------------------- MODULE ConfigService -----------------------------
(* ConfigService::Run (addon/configservice/configservice.cpp): one task that  *)
(* saves what is dirty, then installs an uploaded Wi-Fi configuration, then   *)
(* sleeps.  Everything else happens beside it.                                *)
EXTENDS ConfigStore, WiFiConfigUpload

CONSTANT MaxUploadsWithSets   \* bound: uploads in a behaviour that changes a setting

ASSUME UploadsWithSetsAssumption == MaxUploadsWithSets \in Nat

VARIABLE turn   \* which half of the loop is next

vars == <<storeVars, wifiVars, turn>>

SaveHalf ==
    /\ turn = "Save"
    /\ \/ StartSave /\ UNCHANGED turn
       \/ At("None") /\ ~IsDirty /\ turn' = "Commit" /\ UNCHANGED storeVars
       \/ Saving /\ turn' = IF save' = NotSaving THEN "Commit" ELSE "Save"
    /\ UNCHANGED wifiVars

CommitHalf ==
    /\ turn = "Commit"
    /\ \/ ProcessCommit
       \/ commit = "None" /\ ~CommitDue /\ UNCHANGED wifiVars
    /\ turn' = IF commit' = "None" THEN "Save" ELSE "Commit"
    /\ UNCHANGED storeVars

Run == booted /\ (SaveHalf \/ CommitHalf)

SetProperty ==
    /\ uploads <= MaxUploadsWithSets
    /\ \E s \in Stores : SetValue(s)
    /\ UNCHANGED <<wifiVars, turn>>

HostUpload ==
    /\ booted /\ Host
    /\ uploads' <= MaxUploadsWithSets \/ \A s \in Stores : value[s] = 0
    /\ UNCHANGED <<storeVars, turn>>

\* A power cut, or the reboot that was scheduled.
Restart == StoreRestart /\ WiFiRestart /\ turn' = "Save"

Init == StoreInit /\ WiFiInit /\ turn = "Save"

Next == Run \/ SetProperty \/ HostUpload \/ Restart

Spec == Init /\ [][Next]_vars

-----------------------------------------------------------------------------
\* Every variable has its type: no block is staged past the buffer.
TypeOK ==
    /\ m_State \in States /\ m_nLength \in 0..MaxConfigSize
    /\ m_Buffer \in [Offsets -> Bytes]
    /\ {m_bRebootRequested, moved, rebootScheduled, booted} \subseteq BOOLEAN
    /\ dataOut \in {"None", "D3", "D4", "D5"}
    /\ commit \in CommitSteps
    /\ uploads \in 0..MaxUploads
    /\ \A f \in {work, bak, tmp} : f = NoFile \/ f \in Seq(0..(MaxUploads + 1))
    /\ value \in [Stores -> 0..MaxChanges]
    /\ dirty \in [Stores -> BOOLEAN] /\ failed \in [Stores -> BOOLEAN]
    /\ save \in [store : Stores, step : SaveSteps]
    /\ turn \in {"Save", "Commit"}

\* README: "USBODE preserves your previous configuration": the configuration
\* that was last in place is on the card whole, under its own name or as the
\* backup, after every step of an install and every power cut between them.
PreviousConfigSurvives == last # NoFile => last \in {work, bak}

\* Nothing is ever in place, or kept as the backup, but what the card came with
\* or a configuration the host staged completely and was told GOOD for, whatever
\* the host sends while it is being written.  It has no holes: each of its bytes
\* came from its own upload, none is left from an earlier one or never written.
OnlyAcceptedInstalled ==
    /\ {work, bak} \subseteq accepted \cup {Factory, NoFile}
    /\ \A f \in accepted : f # <<>> /\ \A i \in DOMAIN f : f[i] = f[1] /\ f[i] > 0

\* A reboot is requested only for an upload that is now in place.
RebootMeansInstalled ==
    m_bRebootRequested /\ commit = "WipeBuffer" => work = Staged(m_nLength)

\* A Set that lands while the store is being saved is not forgotten: what is
\* neither dirty nor being saved is on the card, unless that save failed.
NoSettingForgotten ==
    \A s \in Stores :
        ~dirty[s] /\ ~failed[s] /\ ~(save.store = s /\ save.step \in {"Open", "Write"})
          => file[s] = value[s]

\* The task's own steps go on; the host and the power are not the program's.
FairSpec == Spec /\ WF_vars(Run)

\* A queued commit ends: installed, failed, or lost with the power.
CommitEnds == m_State = "CommitQueued" ~> m_State = "Idle"

\* A changed setting gets saved or its save is attempted and fails, also when
\* the other file keeps failing.
SettingsAreSaved ==
    \A s \in Stores : dirty[s] ~> file[s] = value[s] \/ failed[s]

-----------------------------------------------------------------------------
\* configservice.cpp asserts that cmdline.txt loads.
CmdlineLoads == booted
=============================================================================

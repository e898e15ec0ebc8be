------------------------- MODULE ConfigServiceProofs -------------------------
(***************************************************************************)
(* For any number of changes, any number of uploads of any length, whatever  *)
(* FatFs call fails and wherever the power is cut: no setting is forgotten,  *)
(* the previous Wi-Fi configuration survives, and only what the host staged  *)
(* whole is installed.                                                       *)
(***************************************************************************)
EXTENDS ConfigService, TLAPS

\* The invariant.  What each file of the card holds, and the settings.
StoreInv ==
    /\ value \in [Stores -> 0..MaxChanges]
    /\ dirty \in [Stores -> BOOLEAN] /\ failed \in [Stores -> BOOLEAN]
    /\ file \in [Stores -> (0..MaxChanges) \cup {Empty, Partial}]
    /\ save \in [store : Stores, step : SaveSteps]
    /\ booted \in BOOLEAN
    /\ NoSettingForgotten

\* The types of the upload.
WiFiTypes ==
    /\ m_State \in States /\ m_nLength \in 0..MaxConfigSize
    /\ m_Buffer \in [Offsets -> Bytes]
    /\ {m_bRebootRequested, moved, rebootScheduled} \subseteq BOOLEAN
    /\ dataOut \in {"None", "D3", "D4", "D5"}
    /\ commit \in CommitSteps
    /\ uploads \in 0..MaxUploads
    /\ \A f \in {work, bak, tmp} : f = NoFile \/ f \in Seq(0..(MaxUploads + 1))

\* What is staged is of the upload that began last, without a hole, and what was
\* accepted was staged so.
StagedWhole ==
    /\ \A i \in Offsets : i < m_nLength => m_Buffer[i] = uploads
    /\ m_nLength > 0 \/ m_State # "Idle" => uploads > 0
    /\ \A f \in accepted : f # <<>> /\ \A i \in DOMAIN f : f[i] = f[1] /\ f[i] > 0

\* While a commit is queued or under way the staged bytes are the ones that were
\* accepted, and they are what the temporary file holds once it is written.
CommitWhole ==
    /\ m_State = "Committing" <=> commit \notin {"None", "Consume"}
    /\ m_State = "CommitQueued" \/ commit \in CommitSteps \ {"None", "WipeState", "Consume"}
        => Staged(m_nLength) \in accepted
    /\ commit \in {"Install", "MoveAside", "MoveIn"} => tmp = Staged(m_nLength)
    /\ commit = "ClearBackup" => work = Staged(m_nLength)
    /\ m_bRebootRequested => commit \in {"WipeBuffer", "WipeState", "Consume"}
    /\ RebootMeansInstalled
    /\ {work, bak} \subseteq accepted \cup {Factory, NoFile}

\* The configuration last in place: under its own name, or the backup while no
\* file has that name.
LastKept ==
    /\ work # NoFile => work = last
    /\ work = NoFile /\ last # NoFile => bak = last
    /\ commit = "MoveAside" => work # NoFile
    /\ commit = "ClearBackup" => work = last
    /\ commit \in {"UnlinkTemp", "OpenTemp", "WriteTemp", "Install", "MoveAside"} => ~moved
    /\ commit = "Rollback" => moved
    /\ commit \in {"MoveIn", "Rollback"} /\ moved => work = NoFile /\ bak = last

-----------------------------------------------------------------------------
(* The stores.  Nothing the host or the install does reaches them. *)

LEMMA SetKeeps ==
    ASSUME StoreInv, NEW s \in Stores, SetValue(s) PROVE StoreInv'
<1>1. value' \in [Stores -> 0..MaxChanges] /\ dirty' \in [Stores -> BOOLEAN]
  BY ChangesAssumption DEF StoreInv, SetValue
<1>2. NoSettingForgotten'
  BY DEF StoreInv, SetValue, NoSettingForgotten
<1> QED BY <1>1, <1>2 DEF StoreInv, SetValue

LEMMA SaveKeeps ==
    ASSUME StoreInv, StartSave \/ Saving PROVE StoreInv'
<1> USE DEF At, GoTo, SaveSteps
<1>1. save.store \in Stores
  BY DEF StoreInv
<1>2. CASE StartSave
  <2>1. save' \in [store : Stores, step : SaveSteps]
    BY <1>2 DEF StartSave, Stores
  <2>2. NoSettingForgotten'
    BY <1>2 DEF StoreInv, StartSave, NoSettingForgotten
  <2> QED BY <1>2, <2>1, <2>2 DEF StoreInv, StartSave
<1>3. CASE SaveStore
  <2>1. save' \in [store : Stores, step : SaveSteps]
    BY <1>1, <1>3 DEF SaveStore, NotSaving, Stores
  <2>2. dirty' \in [Stores -> BOOLEAN]
    BY <1>1, <1>3 DEF StoreInv, SaveStore, Cleared
  <2>3. NoSettingForgotten'
    BY <1>1, <1>3 DEF StoreInv, SaveStore, Cleared, NoSettingForgotten, NotSaving
  <2> QED BY <1>3, <2>1, <2>2, <2>3 DEF StoreInv, SaveStore
<1>4. CASE OpenStore
  <2>1. save' \in [store : Stores, step : SaveSteps]
    BY <1>1, <1>4 DEF OpenStore, NotSaving, Stores
  <2>2. /\ file' \in [Stores -> (0..MaxChanges) \cup {Empty, Partial}]
        /\ failed' \in [Stores -> BOOLEAN]
    BY <1>1, <1>4 DEF StoreInv, OpenStore
  <2>3. NoSettingForgotten'
    BY <1>1, <1>4 DEF StoreInv, OpenStore, NoSettingForgotten, NotSaving
  <2> QED BY <1>4, <2>1, <2>2, <2>3 DEF StoreInv, OpenStore
<1>5. CASE WriteStore
  <2>1. save' \in [store : Stores, step : SaveSteps]
    BY <1>5 DEF WriteStore, NotSaving, Stores
  <2>2. PICK content \in {value[save.store], Empty, Partial} :
          /\ file' = [file EXCEPT ![save.store] = content]
          /\ failed' = [failed EXCEPT ![save.store] = content \in {Empty, Partial}]
    BY <1>5 DEF WriteStore
  <2>3. /\ file' \in [Stores -> (0..MaxChanges) \cup {Empty, Partial}]
        /\ failed' \in [Stores -> BOOLEAN]
    BY <1>1, <2>2 DEF StoreInv
  <2>4. NoSettingForgotten'
    BY <1>1, <1>5, <2>2 DEF StoreInv, WriteStore, NoSettingForgotten
  <2> QED BY <1>5, <2>1, <2>3, <2>4 DEF StoreInv, WriteStore
<1> QED BY <1>2, <1>3, <1>4, <1>5 DEF Saving

LEMMA StoreRestartKeeps ==
    ASSUME StoreInv, StoreRestart PROVE StoreInv'
<1>1. value' \in [Stores -> 0..MaxChanges]
  BY ChangesAssumption DEF StoreInv, StoreRestart, Loaded
<1>2. NoSettingForgotten'
  BY DEF StoreInv, StoreRestart, Loaded, NoSettingForgotten
<1> QED BY <1>1, <1>2 DEF StoreInv, StoreRestart, NotSaving, SaveSteps, Stores

LEMMA StoreFrame ==
    ASSUME StoreInv, UNCHANGED storeVars PROVE StoreInv'
BY DEF StoreInv, storeVars, NoSettingForgotten

-----------------------------------------------------------------------------
(* The host. *)

UploadInv == WiFiTypes /\ StagedWhole /\ CommitWhole /\ LastKept

\* The steps of the host, by what they do to the staged bytes.
BeginUpload ==
    /\ ~IsBusy
    /\ uploads < MaxUploads /\ uploads' = uploads + 1
    /\ m_State' = "Receiving" /\ m_Buffer' = Wiped /\ m_nLength' = 0
    /\ UNCHANGED accepted

StageBlock ==
    /\ \E index \in Nat, n \in 1..BlockSize : Stage(index, n)
    /\ UNCHANGED <<uploads, accepted>>

LEMMA HostSteps ==
    ASSUME WiFiTypes, Host
    PROVE  /\ IrqUnchanged /\ dataOut' \in {"None", "D3", "D4", "D5"}
           /\ \/ UNCHANGED <<stageVars, uploads, accepted>>
              \/ ~IsBusy /\ Wipe /\ UNCHANGED <<uploads, accepted>>
              \/ BeginUpload
              \/ StageBlock
              \/ RequestCommit /\ UNCHANGED uploads
<1>1. \A index \in 0..((MaxConfigSize - 1) \div BlockSize) : index \in Nat
  BY SizeAssumption
<1>2. CASE SendFilePrep
  BY <1>2 DEF SendFilePrep, Abort, WiFiTypes
<1>3. CASE PrepReceived
  BY <1>3 DEF PrepReceived, Begin, BeginUpload
<1>4. CASE SendFile10
  BY <1>4 DEF SendFile10, Abort, WiFiTypes
<1>5. CASE BlockReceived
  BY <1>1, <1>5 DEF BlockReceived, Abort, StageBlock
<1>6. CASE SendFileEnd
  BY <1>6 DEF SendFileEnd, FinishSendFile, Abort, WiFiTypes
<1>7. CASE EndReceived
  BY <1>7 DEF EndReceived, FinishSendFile, Abort
<1>8. CASE ResetSendFileState
  BY <1>8 DEF ResetSendFileState, Abort
<1> QED BY <1>2, <1>3, <1>4, <1>5, <1>6, <1>7, <1>8 DEF Host

\* A file of staged bytes.
LEMMA StagedIsFile ==
    ASSUME WiFiTypes, NEW n \in 0..m_nLength
    PROVE  /\ Staged(n) \in Seq(0..(MaxUploads + 1))
           /\ DOMAIN Staged(n) = 1..n
           /\ \A i \in 1..n : i - 1 \in Offsets /\ Staged(n)[i] = m_Buffer[i - 1]
<1>1. {n, m_nLength} \subseteq Nat /\ n <= m_nLength /\ m_nLength <= MaxConfigSize
  BY SizeAssumption DEF WiFiTypes
<1>2. \A i \in 1..n : i - 1 \in Offsets
  BY <1>1, SizeAssumption DEF Offsets
<1>3. \A i \in 1..n : m_Buffer[i - 1] \in 0..(MaxUploads + 1)
  BY <1>2, SizeAssumption DEF WiFiTypes, Bytes
<1> QED BY <1>1, <1>2, <1>3 DEF Staged

\* What the host does leaves the install, and the files, alone.
LEMMA HostFrame ==
    ASSUME UploadInv, IrqUnchanged,
           accepted \subseteq accepted',
           m_State' \in {"Idle", "Receiving"} /\ ~IsBusy
    PROVE  CommitWhole' /\ LastKept'
<1>1. commit \in {"None", "Consume"} /\ commit' = commit
  BY DEF UploadInv, CommitWhole, WiFiTypes, CommitSteps, States, IsBusy, IrqUnchanged
<1> QED BY <1>1 DEF UploadInv, CommitWhole, LastKept, IrqUnchanged, fileVars,
                    RebootMeansInstalled

LEMMA StageKeeps ==
    ASSUME UploadInv, IrqUnchanged, StageBlock, dataOut' \in {"None", "D3", "D4", "D5"}
    PROVE  UploadInv'
<1>1. PICK index \in Nat, n \in 1..BlockSize : Stage(index, n)
  BY DEF StageBlock
<1> DEFINE first == index * BlockSize
<1>2. first \in Nat /\ n \in Nat \ {0}
  BY SizeAssumption
<1>3. first + n <= MaxConfigSize /\ first <= m_nLength
  BY <1>1 DEF Stage, Fits
<1>4. /\ m_State = "Receiving" /\ m_State' = m_State
      /\ m_Buffer' = [i \in Offsets |-> IF i \in first..(first + n - 1)
                                        THEN uploads ELSE m_Buffer[i]]
      /\ m_nLength' = IF first + n > m_nLength THEN first + n ELSE m_nLength
  BY <1>1 DEF Stage
<1> HIDE DEF first
<1>5. m_nLength' \in 0..MaxConfigSize /\ m_Buffer' \in [Offsets -> Bytes]
  BY <1>2, <1>3, <1>4, SizeAssumption DEF UploadInv, WiFiTypes, Bytes
<1>6. WiFiTypes'
  BY <1>4, <1>5 DEF UploadInv, WiFiTypes, StageBlock, IrqUnchanged, fileVars
<1>7. \A i \in Offsets : i < m_nLength' => m_Buffer'[i] = uploads
  BY <1>2, <1>3, <1>4, SizeAssumption DEF UploadInv, WiFiTypes, StagedWhole, Offsets
<1>8. uploads > 0
  BY <1>4 DEF UploadInv, StagedWhole
<1>9. StagedWhole'
  BY <1>7, <1>8 DEF UploadInv, StagedWhole, StageBlock
<1>10. CommitWhole' /\ LastKept'
  BY <1>4, HostFrame DEF IsBusy, StageBlock
<1> QED BY <1>6, <1>9, <1>10 DEF UploadInv

LEMMA RequestKeeps ==
    ASSUME UploadInv, IrqUnchanged, RequestCommit, UNCHANGED uploads,
           dataOut' \in {"None", "D3", "D4", "D5"}
    PROVE  UploadInv'
<1>1. /\ m_State = "Receiving" /\ m_nLength > 0 /\ m_State' = "CommitQueued"
      /\ accepted' = accepted \cup {Staged(m_nLength)}
      /\ UNCHANGED <<m_nLength, m_Buffer>>
  BY DEF RequestCommit
<1>2. WiFiTypes'
  BY <1>1 DEF UploadInv, WiFiTypes, IrqUnchanged, fileVars, States
<1>3. m_nLength \in 0..m_nLength /\ m_nLength \in Nat
  BY SizeAssumption DEF UploadInv, WiFiTypes
<1>4. /\ DOMAIN Staged(m_nLength) = 1..m_nLength
      /\ \A i \in 1..m_nLength : i - 1 \in Offsets /\ Staged(m_nLength)[i] = m_Buffer[i - 1]
  BY <1>3, StagedIsFile DEF UploadInv
<1>5. \A i \in 1..m_nLength : Staged(m_nLength)[i] = uploads
  BY <1>3, <1>4 DEF UploadInv, StagedWhole, Offsets
<1>6. Staged(m_nLength) # <<>>
  BY <1>1, <1>3, <1>4
<1>7. uploads > 0 /\ 1 \in 1..m_nLength
  BY <1>1, <1>3 DEF UploadInv, StagedWhole
<1>8. StagedWhole'
  BY <1>1, <1>4, <1>5, <1>6, <1>7 DEF UploadInv, StagedWhole
<1>9. Staged(m_nLength)' = Staged(m_nLength)
  BY <1>1 DEF Staged
<1>10. commit \in {"None", "Consume"}
  BY <1>1 DEF UploadInv, CommitWhole, WiFiTypes, CommitSteps
<1>11. CommitWhole' /\ LastKept'
  BY <1>1, <1>9, <1>10 DEF UploadInv, CommitWhole, LastKept, IrqUnchanged, fileVars,
                           RebootMeansInstalled
<1> QED BY <1>2, <1>8, <1>11 DEF UploadInv

LEMMA HostKeeps ==
    ASSUME UploadInv, Host PROVE UploadInv'
<1>1. IrqUnchanged /\ dataOut' \in {"None", "D3", "D4", "D5"}
  BY HostSteps DEF UploadInv
<1>2. CASE UNCHANGED <<stageVars, uploads, accepted>>
  <2>1. WiFiTypes'
    BY <1>1, <1>2 DEF UploadInv, WiFiTypes, IrqUnchanged, fileVars, stageVars
  <2>2. StagedWhole'
    BY <1>2 DEF UploadInv, StagedWhole, stageVars
  <2>3. CommitWhole' /\ LastKept'
    BY <1>1, <1>2 DEF UploadInv, CommitWhole, LastKept, IrqUnchanged, fileVars, stageVars,
                      RebootMeansInstalled, Staged
  <2> QED BY <2>1, <2>2, <2>3 DEF UploadInv
<1>3. CASE ~IsBusy /\ Wipe /\ UNCHANGED <<uploads, accepted>>
  <2>1. m_nLength' = 0 /\ m_State' = "Idle" /\ m_Buffer' = Wiped
    BY <1>3 DEF Wipe
  <2>2. WiFiTypes'
    BY <1>1, <1>3, <2>1, SizeAssumption
    DEF UploadInv, WiFiTypes, IrqUnchanged, fileVars, Wiped, Bytes, States
  <2>3. StagedWhole'
    BY <1>3, <2>1 DEF UploadInv, StagedWhole, Offsets
  <2> QED BY <1>1, <1>3, <2>1, <2>2, <2>3, HostFrame DEF UploadInv
<1>4. CASE BeginUpload
  <2>1. WiFiTypes'
    BY <1>1, <1>4, SizeAssumption
    DEF BeginUpload, UploadInv, WiFiTypes, IrqUnchanged, fileVars, Wiped, Bytes, States
  <2>2. StagedWhole'
    BY <1>4, SizeAssumption DEF BeginUpload, UploadInv, WiFiTypes, StagedWhole, Offsets
  <2> QED BY <1>1, <1>4, <2>1, <2>2, HostFrame DEF BeginUpload, UploadInv
<1>5. CASE StageBlock
  BY <1>1, <1>5, StageKeeps
<1>6. CASE RequestCommit /\ UNCHANGED uploads
  BY <1>1, <1>6, RequestKeeps
<1> QED BY <1>2, <1>3, <1>4, <1>5, <1>6, HostSteps DEF UploadInv

-----------------------------------------------------------------------------
(* The task. *)

\* Once a commit is claimed, or queued, the host no longer moves the bytes, and
\* until they are wiped they are what was accepted.
LEMMA ClaimedIsAccepted ==
    ASSUME UploadInv, commit \in CommitSteps \ {"None", "WipeState", "Consume"}
    PROVE  m_State = "Committing" /\ Staged(m_nLength) \in accepted
BY DEF UploadInv, CommitWhole

LEMMA StartKeeps ==
    ASSUME UploadInv, StartCommit PROVE UploadInv'
<1> USE DEF StartCommit, GoOn, CommitDue, TaskUnchanged
<1>1. WiFiTypes'
  BY DEF UploadInv, WiFiTypes, fileVars, States, CommitSteps
<1>2. StagedWhole'
  BY DEF UploadInv, StagedWhole
<1>3. Staged(m_nLength)' = Staged(m_nLength)
  BY DEF Staged
<1>4. CommitWhole'
  BY <1>3 DEF UploadInv, CommitWhole, fileVars, CommitSteps, RebootMeansInstalled
<1>5. LastKept'
  BY DEF UploadInv, LastKept, fileVars
<1> QED BY <1>1, <1>2, <1>4, <1>5 DEF UploadInv

LEMMA WriteKeeps ==
    ASSUME UploadInv, WriteTempFile PROVE UploadInv'
<1>1. /\ commit \in {"UnlinkTemp", "OpenTemp", "WriteTemp", "DropTemp"}
      /\ commit' \in {"OpenTemp", "WipeBuffer", "WriteTemp", "DropTemp", "Install"}
      /\ commit' \in {"OpenTemp", "WriteTemp", "Install"} =>
            commit \in {"UnlinkTemp", "OpenTemp", "WriteTemp"}
  BY DEF WriteTempFile, GoOn
<1>2. UNCHANGED <<stageVars, m_bRebootRequested, work, bak, moved, rebootScheduled, last,
                  dataOut, uploads, accepted>>
  BY DEF WriteTempFile, TaskUnchanged
<1>3. \/ tmp' \in {NoFile, tmp, <<>>}
      \/ \E n \in 0..m_nLength : tmp' = Staged(n)
  BY DEF WriteTempFile, Unlinked
<1>4. commit' = "Install" => tmp' = Staged(m_nLength)
  BY DEF WriteTempFile, GoOn
<1>5. tmp' = NoFile \/ tmp' \in Seq(0..(MaxUploads + 1))
  BY <1>3, StagedIsFile DEF UploadInv, WiFiTypes
<1>6. WiFiTypes'
  BY <1>1, <1>2, <1>5 DEF UploadInv, WiFiTypes, stageVars, CommitSteps
<1>7. StagedWhole'
  BY <1>2 DEF UploadInv, StagedWhole, stageVars
<1>8. Staged(m_nLength)' = Staged(m_nLength)
  BY <1>2 DEF Staged, stageVars
<1>9. CommitWhole'
  BY <1>1, <1>2, <1>4, <1>8
  DEF UploadInv, CommitWhole, stageVars, CommitSteps, RebootMeansInstalled
<1>10. LastKept'
  BY <1>1, <1>2 DEF UploadInv, LastKept
<1> QED BY <1>6, <1>7, <1>9, <1>10 DEF UploadInv

LEMMA InstallKeeps ==
    ASSUME UploadInv, InstallTempFile PROVE UploadInv'
<1> USE DEF GoOn, fileVars
<1>1. /\ commit \in {"Install", "MoveAside", "MoveIn", "Rollback", "ClearBackup"}
      /\ commit' \in {"MoveAside", "MoveIn", "ClearBackup", "Rollback", "DropTemp",
                      "WipeBuffer"}
  BY DEF InstallTempFile
<1>2. UNCHANGED <<stageVars, rebootScheduled, dataOut, uploads, accepted>>
  BY DEF InstallTempFile, TaskUnchanged
<1>3. m_bRebootRequested' = (m_bRebootRequested \/ commit = "ClearBackup")
  BY DEF InstallTempFile, Installed
<1>4. \A f \in {work', bak', tmp'} : f \in {work, bak, tmp, NoFile}
  BY DEF InstallTempFile, Unlinked
<1>5. moved' \in BOOLEAN
  BY DEF InstallTempFile, UploadInv, WiFiTypes
<1>6. WiFiTypes'
  BY <1>1, <1>2, <1>3, <1>4, <1>5 DEF UploadInv, WiFiTypes, stageVars, CommitSteps
<1>7. StagedWhole'
  BY <1>2 DEF UploadInv, StagedWhole, stageVars
<1>8. Staged(m_nLength)' = Staged(m_nLength) /\ Staged(m_nLength) \in accepted
  BY <1>1, <1>2, ClaimedIsAccepted DEF Staged, stageVars, CommitSteps
<1>9. CommitWhole'
  <2>1. {work', bak'} \subseteq {work, bak, Staged(m_nLength), NoFile}
    BY DEF InstallTempFile, Unlinked, UploadInv, CommitWhole
  <2>2. commit' \in {"MoveAside", "MoveIn"} => tmp' = Staged(m_nLength)
    BY DEF InstallTempFile, UploadInv, CommitWhole
  <2>3. commit' = "ClearBackup" => work' = Staged(m_nLength)
    BY DEF InstallTempFile, UploadInv, CommitWhole
  <2>4. commit' = "WipeBuffer" => work' = Staged(m_nLength) /\ commit = "ClearBackup"
    BY DEF InstallTempFile, UploadInv, CommitWhole
  <2>5. m_bRebootRequested' => commit' = "WipeBuffer"
    BY <1>1, <1>3 DEF InstallTempFile, UploadInv, CommitWhole
  <2> QED BY <1>1, <1>2, <1>8, <2>1, <2>2, <2>3, <2>4, <2>5
          DEF UploadInv, CommitWhole, stageVars, CommitSteps, RebootMeansInstalled
<1>10. LastKept'
  BY DEF InstallTempFile, Unlinked, MayReplaceBackup, UploadInv, LastKept
<1> QED BY <1>6, <1>7, <1>9, <1>10 DEF UploadInv

LEMMA WipeKeeps ==
    ASSUME UploadInv, WipeStaged PROVE UploadInv'
<1> USE DEF GoOn
<1>1. /\ commit \in {"WipeBuffer", "WipeState"} /\ commit' \in {"WipeState", "Consume"}
      /\ commit' = "Consume" <=> commit = "WipeState"
      /\ m_State' = IF commit = "WipeState" THEN "Idle" ELSE m_State
  BY DEF WipeStaged
<1>2. UNCHANGED <<m_bRebootRequested, fileVars, moved, rebootScheduled, last, dataOut,
                  uploads, accepted>>
  BY DEF WipeStaged, TaskUnchanged
<1>3. \/ m_nLength' = 0 /\ m_Buffer' = Wiped
      \/ UNCHANGED <<m_nLength, m_Buffer>> /\ commit = "WipeState"
  BY DEF WipeStaged
<1>4. m_nLength' \in 0..MaxConfigSize /\ m_Buffer' \in [Offsets -> Bytes]
  BY <1>3, SizeAssumption DEF UploadInv, WiFiTypes, Wiped, Bytes
<1>5. WiFiTypes'
  BY <1>1, <1>2, <1>4 DEF UploadInv, WiFiTypes, fileVars, States, CommitSteps
<1>6. m_State = "Committing" /\ uploads > 0
  BY <1>1 DEF UploadInv, CommitWhole, StagedWhole
<1>7. StagedWhole'
  BY <1>2, <1>3, <1>6 DEF UploadInv, StagedWhole, Offsets
<1>8. CommitWhole'
  BY <1>1, <1>2, <1>6 DEF UploadInv, CommitWhole, fileVars, CommitSteps, RebootMeansInstalled
<1>9. LastKept'
  BY <1>1, <1>2 DEF UploadInv, LastKept, fileVars
<1> QED BY <1>5, <1>7, <1>8, <1>9 DEF UploadInv

LEMMA ConsumeKeeps ==
    ASSUME UploadInv, ConsumeRebootRequest PROVE UploadInv'
<1> USE DEF ConsumeRebootRequest, GoOn, TaskUnchanged
<1>1. WiFiTypes'
  BY DEF UploadInv, WiFiTypes, stageVars, fileVars, CommitSteps
<1>2. StagedWhole'
  BY DEF UploadInv, StagedWhole, stageVars
<1>3. Staged(m_nLength)' = Staged(m_nLength)
  BY DEF Staged, stageVars
<1>4. CommitWhole' /\ LastKept'
  BY <1>3 DEF UploadInv, CommitWhole, LastKept, stageVars, fileVars, CommitSteps,
             RebootMeansInstalled
<1> QED BY <1>1, <1>2, <1>4 DEF UploadInv

LEMMA CommitKeeps ==
    ASSUME UploadInv, ProcessCommit PROVE UploadInv'
BY StartKeeps, WriteKeeps, InstallKeeps, WipeKeeps, ConsumeKeeps DEF ProcessCommit

-----------------------------------------------------------------------------
(* Restart, and the service. *)

LEMMA WipedIsTyped == Wiped \in [Offsets -> Bytes] /\ 0 \in 0..MaxConfigSize
BY SizeAssumption DEF Wiped, Bytes

\* The files are all that is left, and they were right at every step.
LEMMA UploadRestartKeeps ==
    ASSUME UploadInv, WiFiRestart PROVE UploadInv'
<1> USE DEF WiFiRestart, fileVars, historyVars
<1>1. WiFiTypes'
  BY WipedIsTyped DEF UploadInv, WiFiTypes, States, CommitSteps
<1>2. StagedWhole'
  BY DEF UploadInv, StagedWhole, Offsets
<1>3. CommitWhole' /\ LastKept'
  BY DEF UploadInv, CommitWhole, LastKept, CommitSteps, RebootMeansInstalled
<1> QED BY <1>1, <1>2, <1>3 DEF UploadInv

LEMMA UploadFrame ==
    ASSUME UploadInv, UNCHANGED wifiVars PROVE UploadInv'
<1> USE DEF wifiVars, stageVars, fileVars, historyVars
<1>1. WiFiTypes' /\ StagedWhole'
  BY DEF UploadInv, WiFiTypes, StagedWhole
<1>2. Staged(m_nLength)' = Staged(m_nLength)
  BY DEF Staged
<1>3. CommitWhole' /\ LastKept'
  BY <1>2 DEF UploadInv, CommitWhole, LastKept, RebootMeansInstalled
<1> QED BY <1>1, <1>3 DEF UploadInv

ConfigInv == StoreInv /\ UploadInv /\ turn \in {"Save", "Commit"}

LEMMA InitHolds ==
    ASSUME Init PROVE ConfigInv
<1> USE DEF Init, StoreInit, WiFiInit
<1>1. StoreInv
  BY ChangesAssumption DEF StoreInv, NotSaving, SaveSteps, Stores, NoSettingForgotten
<1>2. Factory \in Seq(0..(MaxUploads + 1))
  BY SizeAssumption DEF Factory
<1>3. WiFiTypes
  <2>1. \A f \in {work, bak, tmp} : f = NoFile \/ f \in Seq(0..(MaxUploads + 1))
    BY <1>2
  <2>2. uploads \in 0..MaxUploads
    BY SizeAssumption
  <2> QED BY <2>1, <2>2, WipedIsTyped DEF WiFiTypes, States, CommitSteps
<1>4. StagedWhole /\ CommitWhole /\ LastKept
  BY DEF StagedWhole, CommitWhole, LastKept, Offsets, CommitSteps, RebootMeansInstalled
<1> QED BY <1>1, <1>3, <1>4 DEF ConfigInv, UploadInv

LEMMA StepKeeps ==
    ASSUME ConfigInv, [Next]_vars PROVE ConfigInv'
<1>1. CASE Run /\ SaveHalf
  <2>1. UploadInv'
    BY <1>1, UploadFrame DEF ConfigInv, SaveHalf
  <2>2. StoreInv'
    BY <1>1, SaveKeeps, StoreFrame DEF ConfigInv, SaveHalf
  <2> QED BY <1>1, <2>1, <2>2 DEF ConfigInv, SaveHalf
<1>2. CASE Run /\ CommitHalf
  <2>1. StoreInv'
    BY <1>2, StoreFrame DEF ConfigInv, CommitHalf
  <2>2. UploadInv'
    BY <1>2, CommitKeeps, UploadFrame DEF ConfigInv, CommitHalf
  <2> QED BY <1>2, <2>1, <2>2 DEF ConfigInv, CommitHalf
<1>3. CASE SetProperty
  BY <1>3, SetKeeps, UploadFrame DEF ConfigInv, SetProperty
<1>4. CASE HostUpload
  BY <1>4, HostKeeps, StoreFrame DEF ConfigInv, HostUpload
<1>5. CASE Restart
  BY <1>5, StoreRestartKeeps, UploadRestartKeeps DEF ConfigInv, Restart
<1>6. CASE UNCHANGED vars
  BY <1>6, StoreFrame, UploadFrame DEF ConfigInv, vars
<1> QED BY <1>1, <1>2, <1>3, <1>4, <1>5, <1>6 DEF Next, Run

LEMMA ConfigCorrect == Spec => []ConfigInv
<1>1. Init => ConfigInv
  BY InitHolds
<1>2. ConfigInv /\ [Next]_vars => ConfigInv'
  BY StepKeeps
<1> QED BY <1>1, <1>2, PTL DEF Spec

\* Every variable keeps its type: no block is ever staged past the buffer, and
\* what a restart loads is a version that was set.
THEOREM ConfigTypes == Spec => []TypeOK
<1>1. ConfigInv => TypeOK
  BY DEF ConfigInv, StoreInv, UploadInv, WiFiTypes, TypeOK
<1> QED BY <1>1, ConfigCorrect, PTL

\* ConfigService::Save, against Sets that land in it: what is neither dirty nor
\* being saved is on the card, or its save failed.
THEOREM SettingsCorrect == Spec => []NoSettingForgotten
<1>1. ConfigInv => NoSettingForgotten
  BY DEF ConfigInv, StoreInv
<1> QED BY <1>1, ConfigCorrect, PTL

\* InstallTempFile: at no step, and after no power cut, is the configuration that
\* was last in place gone from the card.
THEOREM PreviousCorrect == Spec => []PreviousConfigSurvives
<1>1. ConfigInv => PreviousConfigSurvives
  BY DEF ConfigInv, UploadInv, LastKept, PreviousConfigSurvives
<1> QED BY <1>1, ConfigCorrect, PTL

\* Staging, commit and install: what is put in place was staged whole, by one
\* upload, and accepted.
THEOREM InstalledCorrect == Spec => []OnlyAcceptedInstalled
<1>1. ConfigInv => OnlyAcceptedInstalled
  BY DEF ConfigInv, UploadInv, StagedWhole, CommitWhole, OnlyAcceptedInstalled
<1> QED BY <1>1, ConfigCorrect, PTL

\* A reboot is requested only for a configuration that is in place.
THEOREM RebootCorrect == Spec => []RebootMeansInstalled
<1>1. ConfigInv => RebootMeansInstalled
  BY DEF ConfigInv, UploadInv, CommitWhole
<1> QED BY <1>1, ConfigCorrect, PTL
=============================================================================

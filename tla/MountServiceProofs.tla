-------------------------- MODULE MountServiceProofs --------------------------
(***************************************************************************)
(* For any images, any number of uploads and deletions, rescans, power       *)
(* cycles and failed loads: the list names only images, the current index    *)
(* names the mounted one, the mounted one is what config.txt remembers, and  *)
(* a drive that was ejected stays so while it boots.                         *)
(***************************************************************************)
EXTENDS MountService, FiniteSetTheorems, WellFoundedInduction, TLAPS

\* Nobody asks for a mount while one is being loaded.
QuietLoad == "Load" \notin RequestsLand

\* The list is a sequence of images.
ListInv == Count \in Nat /\ m_FileEntries \in [1..Count -> Images]

\* The boot arm and the gadget's copy of it are set, and used up, together: the
\* gadget's first, by the mount, and this one at the end of the same turn.
ArmInv == m_bBootEjectPending /\ pc # "Serve" => m_bEjectOnLoad

MountInv == TypeOK /\ ListInv /\ MountedIsSaved /\ BootStaysEmpty /\ ArmInv

\* What is being loaded is what the queued index stands for.
LoadInv == pc = "Load" => /\ next_cd \in 1..Count
                          /\ m_FileEntries[next_cd] = relativePath

-----------------------------------------------------------------------------
(* The list *)

\* The elements of S that are listed before x.
Before(S, x) == {y \in S : y < x}

LEMMA BeforeIsSmaller ==
    ASSUME NEW S, S \subseteq Nat, IsFiniteSet(S), NEW x \in S
    PROVE  /\ IsFiniteSet(Before(S, x))
           /\ Cardinality(Before(S, x)) \in 0..(Cardinality(S) - 1)
<1>1. Before(S, x) \in SUBSET (S \ {x})
  BY DEF Before
<1>2. IsFiniteSet(S \ {x}) /\ Cardinality(S \ {x}) = Cardinality(S) - 1
  BY FS_RemoveElement
<1>3. /\ IsFiniteSet(Before(S, x))
      /\ Cardinality(Before(S, x)) <= Cardinality(S \ {x})
  BY <1>1, <1>2, FS_Subset
<1>4. Cardinality(S) \in Nat /\ Cardinality(Before(S, x)) \in Nat
  BY <1>3, FS_CardinalityType
<1> QED BY <1>2, <1>3, <1>4

\* A later element has more before it.
LEMMA BeforeGrows ==
    ASSUME NEW S, S \subseteq Nat, IsFiniteSet(S), NEW x \in S, NEW z \in S, x < z
    PROVE  Cardinality(Before(S, x)) < Cardinality(Before(S, z))
<1>1. Before(S, x) \in SUBSET Before(S, z) /\ x \in Before(S, z) /\ x \notin Before(S, x)
  <2>1. x \in Nat /\ z \in Nat
    OBVIOUS
  <2>2. ASSUME NEW y \in Before(S, x) PROVE y \in Before(S, z)
    <3>1. y \in Nat /\ y \in S /\ y < x
      BY <2>2 DEF Before
    <3> QED BY <2>1, <3>1 DEF Before
  <2>3. Before(S, x) \in SUBSET Before(S, z)
    BY <2>2
  <2>4. x \in Before(S, z) /\ x \notin Before(S, x)
    BY <2>1 DEF Before
  <2> QED BY <2>3, <2>4
<1>2. IsFiniteSet(Before(S, x)) /\ IsFiniteSet(Before(S, z))
  BY BeforeIsSmaller
<1>3. Cardinality(Before(S, x)) <= Cardinality(Before(S, z))
  BY <1>1, <1>2, FS_Subset
<1>4. Cardinality(Before(S, x)) # Cardinality(Before(S, z))
  BY <1>1, <1>2, FS_Subset
<1>5. Cardinality(Before(S, x)) \in Nat /\ Cardinality(Before(S, z)) \in Nat
  BY <1>2, FS_CardinalityType
<1> QED BY <1>3, <1>4, <1>5

\* So every place of the list is some element's, by counting.
LEMMA EveryPlaceTaken ==
    ASSUME NEW S, S \subseteq Nat, IsFiniteSet(S), NEW i \in 1..Cardinality(S)
    PROVE  \E x \in S : Cardinality(Before(S, x)) = i - 1
<1> DEFINE Places == 0..(Cardinality(S) - 1)
           Rank == [x \in S |-> Cardinality(Before(S, x))]
<1>1. Cardinality(S) \in Nat
  BY FS_CardinalityType
<1>2. IsFiniteSet(Places) /\ Cardinality(Places) = Cardinality(S)
  <2>1. 0 \in Int /\ Cardinality(S) - 1 \in Int
    BY <1>1
  <2>2. /\ IsFiniteSet(Places)
        /\ Cardinality(Places) = IF 0 > Cardinality(S) - 1 THEN 0
                                 ELSE Cardinality(S) - 1 - 0 + 1
    BY <2>1, FS_Interval
  <2> QED BY <1>1, <2>2
<1>3. Rank \in [S -> Places]
  BY BeforeIsSmaller
<1>4. \A x, z \in S : x # z => Rank[x] # Rank[z]
  <2>1. TAKE x, z \in S
  <2>2. HAVE x # z
  <2>3. x < z \/ z < x
    BY <2>2
  <2>4. Cardinality(Before(S, x)) \in Nat /\ Cardinality(Before(S, z)) \in Nat
    BY BeforeIsSmaller, FS_CardinalityType
  <2>5. Rank[x] = Cardinality(Before(S, x)) /\ Rank[z] = Cardinality(Before(S, z))
    OBVIOUS
  <2> HIDE DEF Rank
  <2>6. CASE x < z
    <3>1. Cardinality(Before(S, x)) < Cardinality(Before(S, z))
      BY <2>6, BeforeGrows
    <3> QED BY <2>4, <2>5, <3>1
  <2>7. CASE z < x
    <3>1. Cardinality(Before(S, z)) < Cardinality(Before(S, x))
      BY <2>7, BeforeGrows
    <3> QED BY <2>4, <2>5, <3>1
  <2> QED BY <2>3, <2>6, <2>7
<1> HIDE DEF Rank
<1>5. Rank \in Injection(S, Places)
  BY <1>3, <1>4 DEF Injection, IsInjective
<1>6. Rank \in Surjection(S, Places)
  BY <1>2, <1>5, FS_Injection
<1>7. i - 1 \in Places
  BY <1>1
<1>8. \E x \in S : Rank[x] = i - 1
  BY <1>6, <1>7 DEF Surjection
<1> QED BY <1>8 DEF Rank

\* A sorted list has the elements it was sorted from.
LEMMA SortedIsList ==
    ASSUME NEW S, S \subseteq Nat, IsFiniteSet(S)
    PROVE  /\ Cardinality(S) \in Nat
           /\ Sorted(S) \in [1..Cardinality(S) -> S]
<1>1. \A i \in 1..Cardinality(S) :
        (CHOOSE x \in S : Cardinality({y \in S : y < x}) = i - 1) \in S
  BY EveryPlaceTaken DEF Before
<1> QED BY <1>1, FS_CardinalityType DEF Sorted

\* What a directory of images is read into, in whatever order, is a list.
LEMMA LengthIsCount ==
    ASSUME NEW n \in Nat, NEW S, NEW s \in [1..n -> S]
    PROVE  Cardinality(DOMAIN s) = n
<1>1. DOMAIN s = 1..n /\ 1 \in Int /\ n \in Int
  OBVIOUS
<1>2. Cardinality(1..n) = IF 1 > n THEN 0 ELSE n - 1 + 1
  BY <1>1, FS_Interval
<1> QED BY <1>1, <1>2

LEMMA ImagesOfCard ==
    ASSUME ImagesAssumption, NEW S \in SUBSET Images
    PROVE  S \subseteq Nat /\ IsFiniteSet(S) /\ Cardinality(S) \in Nat
<1>1. IsFiniteSet(S)
  BY FS_Subset DEF ImagesAssumption
<1> QED BY <1>1, FS_CardinalityType DEF ImagesAssumption

LEMMA ReadIsList ==
    ASSUME ImagesAssumption, NEW S \in SUBSET Images, m_FileEntries' \in Orders(S)
    PROVE  ListInv' /\ Listed' \subseteq Images
<1>1. Cardinality(S) \in Nat /\ m_FileEntries' \in [1..Cardinality(S) -> Images]
  BY ImagesOfCard DEF Orders
<1>2. Count' = Cardinality(S)
  BY <1>1, LengthIsCount DEF Count
<1> QED BY <1>1, <1>2 DEF ListInv, Listed

LEMMA SortIsList ==
    ASSUME ImagesAssumption, Listed \subseteq Images, m_FileEntries' = Sorted(Listed)
    PROVE  ListInv' /\ Listed' \subseteq Images
<1>1. /\ Cardinality(Listed) \in Nat
      /\ m_FileEntries' \in [1..Cardinality(Listed) -> Images]
  BY ImagesOfCard, SortedIsList
<1>2. Count' = Cardinality(Listed)
  BY <1>1, LengthIsCount DEF Count
<1> QED BY <1>1, <1>2 DEF ListInv, Listed

LEMMA ListStays ==
    ASSUME UNCHANGED m_FileEntries
    PROVE  (ListInv => ListInv') /\ Listed' = Listed /\ Count' = Count
BY DEF ListInv, Listed, Count

\* An index is found exactly for what is listed.
LEMMA IndexIsRight ==
    ASSUME NEW n \in Nat, NEW list \in [1..n -> Images], NEW path
    PROVE  /\ IndexIn(list, path) \in 0..n
           /\ IndexIn(list, path) # 0 => list[IndexIn(list, path)] = path
           /\ IndexIn(list, path) = 0 => \A i \in 1..n : list[i] # path
<1>1. CASE \E i \in 1..n : list[i] = path
  <2>1. /\ IndexIn(list, path) \in 1..n
        /\ list[IndexIn(list, path)] = path
    BY <1>1 DEF IndexIn
  <2> QED BY <2>1
<1>2. CASE ~\E i \in 1..n : list[i] = path
  BY <1>2 DEF IndexIn
<1> QED BY <1>1, <1>2

LEMMA LeastIndex ==
    ASSUME NEW S, S \subseteq Nat, S # {}
    PROVE  \E s \in S : \A t \in S : s <= t
<1>1. PICK s \in S : \A t \in S : <<t, s>> \notin OpToRel(<, Nat)
  BY NatLessThanWellFounded, WFMin, Zenon
<1>2. \A t \in S : ~(t < s)
  BY <1>1 DEF OpToRel
<1>3. \A t \in S : s <= t
  BY <1>2
<1> QED BY <1>3

LEMMA FirstGoodIsNat ==
    ASSUME NEW n \in Nat, NEW list \in [1..n -> Images]
    PROVE  FirstGood(list) \in Nat
<1> DEFINE good == {i \in DOMAIN list : list[i] # m_LastFailedRelativePath}
<1>1. good \subseteq Nat
  OBVIOUS
<1>2. CASE good = {}
  BY <1>2 DEF FirstGood
<1>3. CASE good # {}
  <2> HIDE DEF good
  <2>1. \E i \in good : \A j \in good : i <= j
    BY <1>1, <1>3, LeastIndex
  <2>2. (CHOOSE i \in good : \A j \in good : i <= j) \in good
    BY <2>1
  <2>3. (CHOOSE i \in good : \A j \in good : i <= j) \in Nat
    BY <1>1, <2>2
  <2> USE DEF good
  <2> QED BY <1>3, <2>3 DEF FirstGood
<1> QED BY <1>2, <1>3

-----------------------------------------------------------------------------
(* Each action *)

LEMMA RequestKeeps ==
    ASSUME MountInv, Request PROVE MountInv'
<1>1. UNCHANGED m_FileEntries
  BY DEF Request, SetNextCD, SetNextCDByName, SetPendingEject, SetPendingInsert,
         HostEject, listVars
<1>2. ASSUME NEW i \in Nat, SetNextCD(i) PROVE MountInv'
  BY <1>1, <1>2, ListStays DEF MountInv, TypeOK, MountedIsSaved, BootStaysEmpty, ArmInv,
     SetNextCD, mountVars, pendingVars, savedVars, gadgetVars, cardVars
<1>3. CASE \E i \in 1..(Count + 1) : SetNextCD(i)
  BY <1>2, <1>3 DEF MountInv, ListInv
<1>4. CASE \E path \in Listed : SetNextCDByName(path)
  <2>1. PICK i \in DOMAIN m_FileEntries : SetNextCD(i)
    BY <1>4 DEF SetNextCDByName
  <2> QED BY <1>2, <2>1 DEF MountInv, ListInv
<1>5. CASE SetPendingEject
  BY <1>1, <1>5, ListStays DEF MountInv, TypeOK, MountedIsSaved, BootStaysEmpty, ArmInv,
     SetPendingEject, listVars, mountVars, savedVars, gadgetVars, cardVars
<1>6. CASE SetPendingInsert
  BY <1>1, <1>6, ListStays DEF MountInv, TypeOK, MountedIsSaved, BootStaysEmpty, ArmInv,
     SetPendingInsert, listVars, mountVars, savedVars, gadgetVars, cardVars
<1>7. CASE HostEject
  BY <1>1, <1>7, ListStays DEF MountInv, TypeOK, MountedIsSaved, BootStaysEmpty, ArmInv,
     HostEject, listVars, mountVars, pendingVars, savedVars, cardVars
<1> QED BY <1>3, <1>4, <1>5, <1>6, <1>7, Zenon DEF Request

LEMMA CardKeeps ==
    ASSUME FileChangesAssumption, MountInv, ChangeCard PROVE MountInv'
<1>1. UNCHANGED m_FileEntries
  BY DEF ChangeCard, listVars
<1> QED BY <1>1, ListStays DEF MountInv, TypeOK, MountedIsSaved, BootStaysEmpty, ArmInv,
     ChangeCard, listVars, mountVars, pendingVars, savedVars, gadgetVars,
     FileChangesAssumption

LEMMA ScanKeeps ==
    ASSUME ImagesAssumption, MountInv, ScanDirectory PROVE MountInv'
<1>1. ListInv' /\ Listed' \subseteq Images
  BY ReadIsList DEF MountInv, TypeOK, ScanDirectory
<1> QED BY <1>1 DEF MountInv, TypeOK, MountedIsSaved, BootStaysEmpty, ArmInv,
     ScanDirectory, mountVars, pendingVars, savedVars, gadgetVars

LEMMA RefreshKeeps ==
    ASSUME ImagesAssumption, MountInv, RefreshCache PROVE MountInv'
<1> DEFINE list == Sorted(Listed)
<1>1. ListInv' /\ Listed' \subseteq Images
  BY SortIsList DEF MountInv, TypeOK, RefreshCache
<1>2. Cardinality(Listed) \in Nat /\ list \in [1..Cardinality(Listed) -> Images]
  BY ImagesOfCard, SortedIsList DEF MountInv, TypeOK
<1>3. IndexIn(list, m_MountedRelativePath) \in Nat /\ IndexIn(list, current_image) \in Nat
  BY <1>2, IndexIsRight
<1>4. FirstGood(list) \in Nat
  BY <1>2, FirstGoodIsNat
<1> HIDE DEF list
<1>5. next_cd' \in Nat /\ current_cd' \in Nat
  BY <1>3, <1>4 DEF MountInv, TypeOK, RefreshCache, CurrentIn, list
<1> QED BY <1>1, <1>5 DEF MountInv, TypeOK, MountedIsSaved, BootStaysEmpty, ArmInv,
     RefreshCache, mountVars, pendingVars, savedVars, gadgetVars, cardVars

LEMMA StartKeeps ==
    ASSUME MountInv, ProcessPendingMount PROVE MountInv'
<1>1. UNCHANGED m_FileEntries
  BY DEF ProcessPendingMount
<1>2. next_cd' \in Nat /\ relativePath' \in Images \cup {NoImage}
  BY DEF MountInv, TypeOK, ListInv, ProcessPendingMount
<1> QED BY <1>1, <1>2, ListStays DEF MountInv, TypeOK, MountedIsSaved, BootStaysEmpty,
     ArmInv, ProcessPendingMount, mountVars, pendingVars, savedVars, gadgetVars, cardVars

LEMMA LoadedKeeps ==
    ASSUME ImagesAssumption, MountInv, Loaded PROVE MountInv'
<1>1. UNCHANGED m_FileEntries
  BY DEF Loaded
<1>2. CASE LoadFailed
  BY <1>1, <1>2, ListStays DEF MountInv, TypeOK, MountedIsSaved, BootStaysEmpty, ArmInv,
     Loaded, LoadFailed, pendingVars, savedVars, gadgetVars, cardVars
<1>3. CASE LoadSucceeded
  BY <1>1, <1>3, ListStays DEF MountInv, TypeOK, MountedIsSaved, BootStaysEmpty, ArmInv,
     Loaded, LoadSucceeded, AdoptedEjected, pendingVars, savedVars, cardVars
<1> QED BY <1>2, <1>3 DEF Loaded

LEMMA ServeKeeps ==
    ASSUME MountInv, ServePending PROVE MountInv'
<1>1. UNCHANGED m_FileEntries
  BY DEF ServePending, listVars
<1>2. m_bEjected' \in BOOLEAN /\ ejected' \in BOOLEAN
  BY DEF MountInv, TypeOK, ServePending, Persisted
<1>3. m_bEjectOnLoad' = FALSE
  BY DEF MountInv, BootStaysEmpty, ServePending, StaysArmed
<1> QED BY <1>1, <1>2, <1>3, ListStays DEF MountInv, TypeOK, MountedIsSaved,
     BootStaysEmpty, ArmInv, ServePending, listVars, mountVars, cardVars

LEMMA BootKeeps ==
    ASSUME ImagesAssumption, MountInv, Boot PROVE MountInv'
<1>1. ListInv' /\ Listed' \subseteq Images
  BY ReadIsList DEF MountInv, TypeOK, Boot
<1> QED BY <1>1 DEF MountInv, TypeOK, MountedIsSaved, BootStaysEmpty, ArmInv, Boot, NoImage

LEMMA StutterKeeps ==
    ASSUME MountInv, UNCHANGED vars PROVE MountInv'
<1>1. UNCHANGED m_FileEntries
  BY DEF vars, listVars
<1> QED BY <1>1, ListStays DEF MountInv, TypeOK, MountedIsSaved, BootStaysEmpty, ArmInv,
     vars, listVars, mountVars, pendingVars, savedVars, gadgetVars, cardVars

LEMMA InitHolds == ASSUME ImagesAssumption, FileChangesAssumption, Init PROVE MountInv
<1>1. Cardinality(card) \in Nat /\ m_FileEntries \in [1..Cardinality(card) -> Images]
  BY ImagesOfCard DEF Init, Orders
<1>2. Count = Cardinality(card)
  BY <1>1, LengthIsCount DEF Count
<1>3. ListInv /\ Listed \subseteq Images
  BY <1>1, <1>2 DEF ListInv, Listed
<1>4. /\ {m_MountedRelativePath, m_LastFailedRelativePath, current_image, m_pDevice,
          relativePath} \subseteq Images \cup {NoImage}
      /\ fileChanges \in 0..MaxFileChanges
  BY DEF Init, FileChangesAssumption
<1>5. {m_bPendingEject, m_bPendingInsert, m_bBootEjectPending, ejected, rescanDue,
       m_bPersistedEjected, m_bEjected, m_bEjectOnLoad, asked} \subseteq BOOLEAN
  BY DEF Init
<1>6. TypeOK
  BY <1>3, <1>4, <1>5 DEF TypeOK, Init
<1> QED BY <1>3, <1>6 DEF MountInv, MountedIsSaved, BootStaysEmpty, ArmInv, Init, NoImage

LEMMA MountCorrect == Spec => []MountInv
<1>1. Init => MountInv
  BY InitHolds, ImagesAssumption, FileChangesAssumption
<1>2. ASSUME MountInv, [Next]_vars PROVE MountInv'
  <2>1. CASE Request
    BY <1>2, <2>1, RequestKeeps
  <2>2. CASE ChangeCard
    BY <1>2, <2>2, CardKeeps, FileChangesAssumption
  <2>3. CASE ScanDirectory
    BY <1>2, <2>3, ScanKeeps, ImagesAssumption
  <2>4. CASE RefreshCache
    BY <1>2, <2>4, RefreshKeeps, ImagesAssumption
  <2>5. CASE Run
    BY <1>2, <2>5, StartKeeps, LoadedKeeps, ServeKeeps, ImagesAssumption DEF Run
  <2>6. CASE Boot
    BY <1>2, <2>6, BootKeeps, ImagesAssumption
  <2>7. CASE UNCHANGED vars
    BY <1>2, <2>7, StutterKeeps
  <2> QED BY <1>2, <2>1, <2>2, <2>3, <2>4, <2>5, <2>6, <2>7 DEF Next
<1> QED BY <1>1, <1>2, PTL DEF Spec

-----------------------------------------------------------------------------
(* The current index *)

LEMMA CurrentKeeps ==
    ASSUME ImagesAssumption, RequestsAssumption, QuietLoad,
           MountInv, LoadInv, CurrentIsMounted, [Next]_vars
    PROVE  LoadInv' /\ CurrentIsMounted'
<1>1. CASE Request
  <2>1. ASSUME NEW i, SetNextCD(i) PROVE LoadInv' /\ CurrentIsMounted'
    BY <2>1 DEF SetNextCD, QuietLoad, LoadInv, CurrentIsMounted, Count, Listed,
       gadgetVars
  <2>2. CASE SetPendingEject \/ SetPendingInsert \/ HostEject
    BY <2>2 DEF SetPendingEject, SetPendingInsert, HostEject, LoadInv, CurrentIsMounted,
       Count, Listed, listVars, gadgetVars
  <2> QED BY <1>1, <2>1, <2>2, Zenon DEF Request, SetNextCDByName
<1>2. CASE ChangeCard
  BY <1>2 DEF ChangeCard, LoadInv, CurrentIsMounted, Count, Listed, listVars, gadgetVars
<1>3. CASE ScanDirectory \/ Boot
  BY <1>3 DEF ScanDirectory, Boot, LoadInv, CurrentIsMounted
<1>4. CASE RefreshCache
  <2> DEFINE list == Sorted(Listed)
             n == Cardinality(Listed)
  <2>1. n \in Nat /\ list \in [1..n -> Images]
    BY ImagesOfCard, SortedIsList DEF MountInv, TypeOK
  <2>2. Count' = n
    BY <1>4, <2>1, LengthIsCount DEF Count, RefreshCache
  <2> HIDE DEF list, n
  <2>3. /\ m_FileEntries' = list /\ pc' = "Idle" /\ m_pDevice' = m_pDevice
        /\ current_cd' = IndexIn(list, m_pDevice)
    BY <1>4 DEF RefreshCache, CurrentIn, MountInv, MountedIsSaved, gadgetVars, list
  <2>4. /\ current_cd' \in 0..n
        /\ current_cd' # 0 => list[current_cd'] = m_pDevice
        /\ current_cd' = 0 => \A i \in 1..n : list[i] # m_pDevice
    BY <2>1, <2>3, IndexIsRight
  <2>5. Listed' = {list[i] : i \in 1..n}
    BY <2>1, <2>3 DEF Listed
  <2> QED BY <2>1, <2>2, <2>3, <2>4, <2>5 DEF LoadInv, CurrentIsMounted
<1>5. CASE ProcessPendingMount
  BY <1>5 DEF ProcessPendingMount, LoadInv, CurrentIsMounted, Count, Listed, gadgetVars
<1>6. CASE Loaded
  <2>1. UNCHANGED m_FileEntries /\ pc = "Load" /\ pc' = "Serve"
    BY <1>6 DEF Loaded
  <2>2. CASE LoadFailed
    BY <2>1, <2>2 DEF LoadFailed, LoadInv, CurrentIsMounted, Count, Listed, gadgetVars
  <2>3. CASE LoadSucceeded
    <3>1. /\ current_cd' = next_cd /\ m_pDevice' = relativePath
          /\ next_cd \in 1..Count /\ m_FileEntries[next_cd] = relativePath
      BY <2>1, <2>3 DEF LoadSucceeded, LoadInv
    <3>2. current_cd' # 0
      BY <3>1 DEF MountInv, ListInv
    <3> QED BY <2>1, <3>1, <3>2, ListStays DEF LoadInv, CurrentIsMounted
  <2> QED BY <1>6, <2>2, <2>3 DEF Loaded
<1>7. CASE ServePending
  BY <1>7 DEF ServePending, LoadInv, CurrentIsMounted, Count, Listed, listVars
<1>8. CASE UNCHANGED vars
  BY <1>8 DEF vars, LoadInv, CurrentIsMounted, Count, Listed, listVars, gadgetVars
<1> QED BY <1>1, <1>2, <1>3, <1>4, <1>5, <1>6, <1>7, <1>8 DEF Next, Run

-----------------------------------------------------------------------------
\* Every variable keeps its type; in particular a sorted list has every entry it
\* was sorted from, so no place of it is empty.
THEOREM MountTypes == Spec => []TypeOK
<1>1. MountInv => TypeOK
  BY DEF MountInv
<1> QED BY <1>1, MountCorrect, PTL

\* SCSITBService::RefreshCache and ProcessPendingMount: across any rescans the
\* index names the disc the host has, unless a request lands inside a load.
THEOREM CurrentCorrect == ASSUME QuietLoad PROVE Spec => []CurrentIsMounted
<1>1. Init => LoadInv /\ CurrentIsMounted
  BY DEF Init, LoadInv, CurrentIsMounted
<1>2. MountInv /\ LoadInv /\ CurrentIsMounted /\ [Next]_vars
        => LoadInv' /\ CurrentIsMounted'
  BY CurrentKeeps, QuietLoad, ImagesAssumption, RequestsAssumption
<1> QED BY <1>1, <1>2, MountCorrect, PTL DEF Spec

\* What is reported as mounted, and saved for the next boot, is what the host has,
\* whatever loads fail and wherever the power is cut between two steps.
THEOREM SavedCorrect == Spec => []MountedIsSaved
<1>1. MountInv => MountedIsSaved
  BY DEF MountInv
<1> QED BY <1>1, MountCorrect, PTL

\* The constructor, ProcessPendingMount and Run: a drive that was ejected when the
\* power went boots empty, and is not armed beyond the boot.
THEOREM BootCorrect == Spec => []BootStaysEmpty
<1>1. MountInv => BootStaysEmpty
  BY DEF MountInv
<1> QED BY <1>1, MountCorrect, PTL
=============================================================================

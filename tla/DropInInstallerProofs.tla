------------------------- MODULE DropInInstallerProofs -------------------------
(***************************************************************************)
(* What InstallAllDropInAddOns promises about the packages, for any number *)
(* of repositories, versions, clients and crashes.                         *)
(***************************************************************************)
EXTENDS DropInInstaller, WellFoundedInduction, TLAPS

\* The points at which a repository is at hand.
AtWork == {"create", "creating", "check", "update", "updating", "undo"}

\* The installer has the transaction exactly while one of its routines runs.
OwnsWhileInstalling == owner = Installer <=> pc \in {"creating", "updating"}

\* What is at hand is the latest version that was found, and still there.
LatestAtHand ==
    pc \in AtWork =>
        /\ current \in AddOns \X Versions
        /\ package[A][V] # "none"
        /\ \A v \in read[A] : V >= v

\* The part of the type that the argument needs.
Shape ==
    /\ package \in [AddOns -> [Versions -> {"none", "partial", "complete"}]]
    /\ installed \in [AddOns -> 0 .. MaxVersion]
    /\ client \in [Clients ->
          {Idle} \cup [st : {"working", "undoing"}, addOn : AddOns]]
    /\ \A c \in Clients : owner = c => client[c] # Idle /\ client[c].st = "working"
    /\ read \in [AddOns -> SUBSET Versions]
    /\ left \subseteq AddOns
    /\ repositories \subseteq AddOns

\* What a run owes to the repository of a.
Settled(a) ==
    a \in failed \cup refused \cup touched \/ \A v \in read[a] : installed[a] >= v

\* In the middle of a run, all it has looked at is settled but what is at hand.
AllSettled ==
    pc \notin {"idle", "list"} =>
        \A a \in AddOns : Settled(a) \/ (pc \in AtWork /\ a = A)

IndInv == Shape /\ OwnsWhileInstalling /\ LatestAtHand /\ AllSettled

-------------------------------------------------------------------------------

\* The versions are bounded, so that some tags have a latest one.
LEMMA LatestIsMaximum ==
    ASSUME NEW T \in SUBSET Versions, T # {}
    PROVE  Latest(T) \in T /\ \A v \in T : Latest(T) >= v
  <1> DEFINE D == {MaxVersion - v : v \in T}
  <1>1. MaxVersion \in Nat /\ \A v \in T : v \in Nat /\ v <= MaxVersion
    BY DropInAssumption DEF Versions
  <1>2. D \subseteq Nat
    BY <1>1
  <1>3. D # {}
    OBVIOUS
  <1>4. PICK d \in D : \A e \in D : ~ (<<e, d>> \in OpToRel(<, Nat))
    BY <1>2, <1>3, WFMin, NatLessThanWellFounded
  <1>5. ASSUME NEW e \in D PROVE d <= e
    <2>1. d \in Nat /\ e \in Nat
      BY <1>2
    <2>2. ~ (e < d)
      BY <1>4, <2>1 DEF OpToRel
    <2> HIDE DEF D
    <2> QED
      BY <2>1, <2>2
  <1>6. \E v \in T : \A w \in T : v >= w
    <2>1. PICK v \in T : d = MaxVersion - v
      OBVIOUS
    <2>2. ASSUME NEW w \in T PROVE v >= w
      <3>1. d <= MaxVersion - w
        BY <1>5
      <3> QED
        BY <1>1, <2>1, <3>1
    <2> QED
      BY <2>2
  <1> QED
    BY <1>6 DEF Latest

\* A version is written to one manifest; the others stay.
LEMMA InstalledStep ==
    ASSUME installed \in [AddOns -> 0 .. MaxVersion],
           NEW a \in AddOns,
           UNCHANGED installed \/ \E v \in 0 .. MaxVersion : SetInstalled(a, v)
    PROVE  /\ installed' \in [AddOns -> 0 .. MaxVersion]
           /\ \A b \in AddOns : b # a => installed'[b] = installed[b]
  <1>1. CASE UNCHANGED installed
    BY <1>1
  <1>2. ASSUME NEW v \in 0 .. MaxVersion, SetInstalled(a, v)
        PROVE  /\ installed' \in [AddOns -> 0 .. MaxVersion]
               /\ \A b \in AddOns : b # a => installed'[b] = installed[b]
    BY <1>2 DEF SetInstalled
  <1> QED
    BY <1>1, <1>2

LEMMA InitIndInv == Init => IndInv
  BY DropInAssumption
  DEF Init, IndInv, Shape, OwnsWhileInstalling, LatestAtHand, AllSettled, Idle, AtWork,
      Absent

-------------------------------------------------------------------------------
(* Steps that do not belong to the installer *)

\* A copy makes packages appear, and none disappear.
LEMMA CopyStep == IndInv /\ Copy => IndInv'
  <1> SUFFICES ASSUME IndInv, NEW a \in AddOns,
                      \/ MakeDirectory(a)
                      \/ \E v \in Versions : StartCopy(a, v) \/ FinishCopy(a, v)
               PROVE  IndInv'
    BY DEF Copy
  <1> USE DEF IndInv, Shape, OwnsWhileInstalling, LatestAtHand, AllSettled, Settled,
              A, V, loop, history
  <1>1. CASE MakeDirectory(a)
    BY <1>1 DEF MakeDirectory
  <1>2. ASSUME NEW v \in Versions, StartCopy(a, v) PROVE IndInv'
    BY <1>2 DEF StartCopy
  <1>3. ASSUME NEW v \in Versions, FinishCopy(a, v) PROVE IndInv'
    BY <1>3 DEF FinishCopy
  <1> QED
    BY <1>1, <1>2, <1>3

\* Whatever a client does to an add-on is remembered in touched.
LEMMA ClientStep == IndInv /\ ClientSteps => IndInv'
  <1> SUFFICES ASSUME IndInv, NEW c \in Clients,
                      \/ \E a \in AddOns : ClientBegins(c, a)
                      \/ \E v \in 0 .. MaxVersion : ClientWorks(c, v)
                      \/ ClientCommits(c) \/ ClientFails(c) \/ ClientUndoes(c)
               PROVE  IndInv'
    BY DEF ClientSteps
  <1> USE DropInAssumption
      DEF IndInv, Shape, OwnsWhileInstalling, LatestAtHand, AllSettled, Settled,
          A, V, disk, loop, history, Idle
  <1>1. ASSUME NEW a \in AddOns, ClientBegins(c, a) PROVE IndInv'
    BY <1>1 DEF ClientBegins
  <1>2. ASSUME NEW v \in 0 .. MaxVersion, ClientWorks(c, v) PROVE IndInv'
    BY <1>2 DEF ClientWorks, SetInstalled
  <1>3. CASE ClientCommits(c)
    BY <1>3 DEF ClientCommits
  <1>4. CASE ClientFails(c)
    <2>1. client' \in [Clients ->
             {Idle} \cup [st : {"working", "undoing"}, addOn : AddOns]]
      BY <1>4 DEF ClientFails
    <2>2. \A d \in Clients : owner' # d
      BY <1>4 DEF ClientFails
    <2> QED
      BY <1>4, <2>1, <2>2 DEF ClientFails
  <1>5. CASE ClientUndoes(c)
    <2> DEFINE b == client[c].addOn
    <2>1. b \in AddOns
      BY <1>5 DEF ClientUndoes
    <2>2. UNCHANGED installed \/ \E v \in 0 .. MaxVersion : SetInstalled(b, v)
      BY <1>5 DEF ClientUndoes, Absent
    <2>3. /\ installed' \in [AddOns -> 0 .. MaxVersion]
          /\ \A a \in AddOns : a # b => installed'[a] = installed[a]
      <3>1. installed \in [AddOns -> 0 .. MaxVersion]
        OBVIOUS
      <3> HIDE DEF b
      <3> QED
        BY ONLY <2>1, <2>2, <3>1, InstalledStep
    <2>4. Shape'
      <3>1. client' \in [Clients ->
               {Idle} \cup [st : {"working", "undoing"}, addOn : AddOns]]
        BY <1>5 DEF ClientUndoes
      <3>2. owner # c
        BY <1>5 DEF ClientUndoes
      <3>3. \A d \in Clients : owner' = d => client'[d] # Idle /\ client'[d].st = "working"
        BY <1>5, <3>2 DEF ClientUndoes
      <3> QED
        BY <1>5, <2>3, <3>1, <3>3 DEF ClientUndoes
    <2>5. OwnsWhileInstalling' /\ LatestAtHand'
      BY <1>5 DEF ClientUndoes
    <2>6. AllSettled'
      BY <1>5, <2>1, <2>3 DEF ClientUndoes
    <2> QED
      BY <2>4, <2>5, <2>6
  <1> QED
    BY <1>1, <1>2, <1>3, <1>4, <1>5

LEMMA CrashStep == IndInv /\ Crash => IndInv'
  <1> SUFFICES ASSUME IndInv, Crash PROVE IndInv'
    OBVIOUS
  <1>1. installed' \in [AddOns -> 0 .. MaxVersion]
    <2>1. CASE UNCHANGED installed
      BY <2>1 DEF IndInv, Shape
    <2>2. ASSUME pc \in {"creating", "updating"}, NEW v \in {Absent, V}, SetInstalled(A, v)
          PROVE  installed' \in [AddOns -> 0 .. MaxVersion]
      <3>1. A \in AddOns /\ V \in 1 .. MaxVersion
        BY <2>2 DEF IndInv, LatestAtHand, AtWork, A, V, Versions
      <3>2. v \in 0 .. MaxVersion
        BY <2>2, <3>1, DropInAssumption DEF Absent
      <3> QED
        BY <2>2, <3>1, <3>2, InstalledStep DEF IndInv, Shape
    <2> QED
      BY <2>1, <2>2 DEF Crash
  <1>2. Shape'
    BY <1>1, DropInAssumption DEF Crash, IndInv, Shape, disk, history, Idle
  <1>3. OwnsWhileInstalling' /\ LatestAtHand' /\ AllSettled'
    BY DropInAssumption DEF Crash, OwnsWhileInstalling, LatestAtHand, AllSettled, AtWork
  <1> QED
    BY <1>2, <1>3 DEF IndInv

-------------------------------------------------------------------------------
(* Steps of the installer *)

\* The loop: a run begins with nothing to settle, and takes one repository at a
\* time.
LEMMA LoopStep ==
    ASSUME IndInv,
           \/ Success \/ ListRepositories \/ ListFails \/ AllTaken
           \/ Delete \/ InstallReturns
           \/ \E a \in AddOns : SkipRepository(a) \/ TakeLatest(a)
    PROVE  IndInv'
  <1> USE DropInAssumption
      DEF IndInv, Shape, OwnsWhileInstalling, LatestAtHand, AllSettled, Settled,
          A, V, AtWork, disk, loop, history, RunReturns
  <1>1. CASE Success
    BY <1>1 DEF Success
  <1>2. CASE ListRepositories
    <2>1. read' \in [AddOns -> SUBSET Versions] /\ \A a \in AddOns : read'[a] = {}
      BY <1>2 DEF ListRepositories
    <2>2. Shape'
      <3>1. left' \subseteq AddOns
        BY <1>2 DEF ListRepositories
      <3>2. UNCHANGED <<package, repositories, installed, owner, client>>
        BY <1>2 DEF ListRepositories
      <3> QED
        BY <2>1, <3>1, <3>2
    <2>3. OwnsWhileInstalling' /\ LatestAtHand' /\ AllSettled'
      BY <1>2, <2>1 DEF ListRepositories
    <2> QED
      BY <2>2, <2>3
  <1>3. CASE ListFails
    BY <1>3 DEF ListFails
  <1>4. CASE AllTaken
    BY <1>4 DEF AllTaken
  <1>5. CASE InstallReturns
    BY <1>5 DEF InstallReturns
  <1>6. CASE Delete
    <2>1. package' \in [AddOns -> [Versions -> {"none", "partial", "complete"}]]
      <3> DEFINE Empty == [v \in Versions |-> "none"]
      <3>1. Empty \in [Versions -> {"none", "partial", "complete"}]
        OBVIOUS
      <3>2. UNCHANGED package
              \/ package' = [package EXCEPT ![deferred[Len(deferred)]] = Empty]
        BY <1>6 DEF Delete
      <3> HIDE DEF Empty
      <3> QED
        BY <3>1, <3>2
    <2>2. repositories' \subseteq AddOns
      BY <1>6 DEF Delete
    <2> QED
      BY <1>6, <2>1, <2>2 DEF Delete
  <1>7. ASSUME NEW a \in AddOns, SkipRepository(a) PROVE IndInv'
    BY <1>7 DEF SkipRepository
  <1>8. ASSUME NEW a \in AddOns, TakeLatest(a) PROVE IndInv'
    <2>1. Tags(a) \in SUBSET Versions /\ Tags(a) # {}
      BY <1>8 DEF TakeLatest, Tags
    <2>2. Latest(Tags(a)) \in Tags(a) /\ \A v \in Tags(a) : Latest(Tags(a)) >= v
      BY <2>1, LatestIsMaximum
    <2>3. Latest(Tags(a)) \in Versions /\ package[a][Latest(Tags(a))] # "none"
      BY <2>2 DEF Tags
    <2> QED
      BY <1>8, <2>1, <2>2, <2>3 DEF TakeLatest
  <1> QED
    BY <1>1, <1>2, <1>3, <1>4, <1>5, <1>6, <1>7, <1>8

\* The routines: whichever way the work on a repository ends, it is settled.
LEMMA RoutineStep ==
    ASSUME IndInv,
           \/ CreateAddOnBegins \/ CreateAddOnRoutine \/ IsValidUpdate
           \/ UpdateAddOnBegins \/ UpdateAddOnRoutine \/ RollbackReturns
    PROVE  IndInv'
  <1> USE DropInAssumption
      DEF IndInv, Shape, OwnsWhileInstalling, LatestAtHand, AllSettled, Settled,
          A, V, AtWork, disk, loop, history, SetInstalled, Absent, Versions
  <1>1. CASE CreateAddOnBegins
    BY <1>1 DEF CreateAddOnBegins, CreateTransaction, LogRefusal
  <1>2. CASE CreateAddOnRoutine
    <2>1. A \in AddOns /\ V \in 1 .. MaxVersion
      BY <1>2 DEF CreateAddOnRoutine
    <2>2. CASE UNCHANGED installed /\ pc' = "check"
      BY <1>2, <2>2 DEF CreateAddOnRoutine, RollbackBegins
    <2>3. CASE SetInstalled(A, V) /\ pc' = "next"
      BY <1>2, <2>1, <2>3 DEF CreateAddOnRoutine, RollbackBegins
    <2>4. CASE pc' = "undo"
      BY <1>2, <2>1, <2>4 DEF CreateAddOnRoutine, RollbackBegins
    <2> QED
      BY <1>2, <2>2, <2>3, <2>4 DEF CreateAddOnRoutine, RollbackBegins
  <1>3. CASE IsValidUpdate
    BY <1>3 DEF IsValidUpdate
  <1>4. CASE UpdateAddOnBegins
    BY <1>4 DEF UpdateAddOnBegins, CreateTransaction, LogRefusal
  <1>5. CASE UpdateAddOnRoutine
    <2>1. A \in AddOns /\ V \in 1 .. MaxVersion
      BY <1>5 DEF UpdateAddOnRoutine
    <2>2. CASE SetInstalled(A, V) /\ pc' = "next"
      BY <1>5, <2>1, <2>2 DEF UpdateAddOnRoutine, RollbackBegins
    <2>3. CASE pc' = "undo"
      <3>1. UNCHANGED installed \/ \E v \in 0 .. MaxVersion : SetInstalled(A, v)
        BY <1>5, <2>1, <2>3 DEF UpdateAddOnRoutine, RollbackBegins
      <3>2. /\ installed' \in [AddOns -> 0 .. MaxVersion]
            /\ \A a \in AddOns : a # A => installed'[a] = installed[a]
        <4>1. installed \in [AddOns -> 0 .. MaxVersion]
          OBVIOUS
        <4> QED
          BY ONLY <2>1, <3>1, <4>1, InstalledStep
      <3>3. Shape'
        BY <1>5, <2>3, <3>2 DEF UpdateAddOnRoutine, RollbackBegins
      <3>4. OwnsWhileInstalling' /\ LatestAtHand'
        BY <1>5, <2>3 DEF UpdateAddOnRoutine, RollbackBegins
      <3>5. AllSettled'
        BY <1>5, <2>3, <3>2 DEF UpdateAddOnRoutine, RollbackBegins
      <3> QED
        BY <3>3, <3>4, <3>5
    <2> QED
      BY <1>5, <2>2, <2>3 DEF UpdateAddOnRoutine, RollbackBegins
  <1>6. CASE RollbackReturns
    <2>1. A \in AddOns
      BY <1>6 DEF RollbackReturns
    <2>2. /\ installed' \in [AddOns -> 0 .. MaxVersion]
          /\ \A a \in AddOns : a # A => installed'[a] = installed[a]
      <3>1. UNCHANGED installed \/ \E v \in 0 .. MaxVersion : SetInstalled(A, v)
        BY <1>6 DEF RollbackReturns
      <3>2. installed \in [AddOns -> 0 .. MaxVersion]
        OBVIOUS
      <3> QED
        BY ONLY <2>1, <3>1, <3>2, InstalledStep
    <2>3. Shape'
      BY <1>6, <2>2 DEF RollbackReturns, LogError
    <2>4. OwnsWhileInstalling' /\ LatestAtHand'
      BY <1>6 DEF RollbackReturns, LogError
    <2>5. AllSettled'
      BY <1>6, <2>2 DEF RollbackReturns, LogError
    <2> QED
      BY <2>3, <2>4, <2>5
  <1> QED
    BY <1>1, <1>2, <1>3, <1>4, <1>5, <1>6

LEMMA IndInvStep == IndInv /\ [Next]_vars => IndInv'
  <1>1. ASSUME IndInv, UNCHANGED vars PROVE IndInv'
    BY <1>1
    DEF vars, disk, loop, history, IndInv, Shape, OwnsWhileInstalling, LatestAtHand,
        AllSettled, Settled, A, V
  <1> QED
    BY <1>1, CopyStep, ClientStep, CrashStep, LoopStep, RoutineStep
    DEF Next, Installing, InstallAllDropInAddOns

LEMMA InstallerInvariance == Spec => []IndInv
  BY InitIndInv, IndInvStep, PTL DEF Spec

-------------------------------------------------------------------------------

\* The routines of the installer have the transaction to themselves, and the
\* package they pull is not deleted under them.
THEOREM PackageThereWhileInstallingHolds == Spec => []PackageThereWhileInstalling
  <1>1. IndInv => PackageThereWhileInstalling
    BY DEF IndInv, OwnsWhileInstalling, LatestAtHand, AtWork, PackageThereWhileInstalling
  <1> QED
    BY InstallerInvariance, <1>1, PTL

\* No package that a run has read when it took the latest tag is deleted before the
\* run has installed it, found it too old, failed or been refused, or a client has
\* taken over.  A version copied after that goes unseen, with the whole repository.
THEOREM HandledBeforeDeletedHolds == Spec => HandledBeforeDeleted
  <1> DEFINE Handled ==
        \A a \in AddOns, v \in Versions :
            Removed(a, v) /\ v \in read[a] =>
                a \in failed \cup refused \cup touched \/ installed[a] >= v
  <1>1. ASSUME IndInv, Next, NEW a \in AddOns, NEW v \in Versions, Removed(a, v)
        PROVE  Delete
    <2> USE DEF Removed, IndInv, Shape, disk
    <2>1. CASE Copy
      <3>1. PICK b \in AddOns :
               MakeDirectory(b) \/ \E w \in Versions : StartCopy(b, w) \/ FinishCopy(b, w)
        BY <2>1 DEF Copy
      <3>2. CASE MakeDirectory(b)
        BY <1>1, <3>2 DEF MakeDirectory
      <3>3. ASSUME NEW w \in Versions, StartCopy(b, w) PROVE Delete
        BY <1>1, <3>3 DEF StartCopy
      <3>4. ASSUME NEW w \in Versions, FinishCopy(b, w) PROVE Delete
        BY <1>1, <3>4 DEF FinishCopy
      <3> QED
        BY <3>1, <3>2, <3>3, <3>4
    <2>2. CASE ClientSteps
      BY <1>1, <2>2 DEF ClientSteps, ClientBegins, ClientWorks, ClientCommits,
                        ClientFails, ClientUndoes
    <2>3. CASE Success
      BY <1>1, <2>3 DEF Success
    <2>4. CASE Crash
      BY <1>1, <2>4 DEF Crash
    <2>5. CASE Installing
      BY <1>1, <2>5
      DEF Installing, InstallAllDropInAddOns, ListRepositories, ListFails,
          SkipRepository, TakeLatest, AllTaken, CreateAddOnBegins, CreateAddOnRoutine,
          IsValidUpdate, UpdateAddOnBegins, UpdateAddOnRoutine, RollbackReturns,
          InstallReturns, CreateTransaction, RollbackBegins, LogError, LogRefusal
    <2> QED
      BY <1>1, <2>1, <2>2, <2>3, <2>4, <2>5 DEF Next
  <1>2. IndInv /\ [Next]_vars => [Handled]_vars
    <2> SUFFICES ASSUME IndInv, Next, NEW a \in AddOns, NEW v \in Versions,
                        Removed(a, v), v \in read[a]
                 PROVE  a \in failed \cup refused \cup touched \/ installed[a] >= v
      OBVIOUS
    <2>1. Delete
      BY <1>1
    <2> QED
      BY <2>1 DEF Delete, IndInv, AllSettled, Settled, AtWork
  <1> QED
    BY InstallerInvariance, <1>2, PTL DEF Spec, HandledBeforeDeleted
================================================================================

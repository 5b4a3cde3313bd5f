--------------------------- MODULE VolumeDriverProofs ---------------------------
(***************************************************************************)
(* The mutex of the volume drivers protects what it should, for every      *)
(* number of goroutines and of volumes: the state file agrees with the map *)
(* whenever nobody is inside, and no volume is known without a directory.  *)
(***************************************************************************)
EXTENDS VolumeDriver, TLAPS

\* The critical section, and its part before the map is written.
Inside == {"exists", "mkdir", "chown", "insert", "rmdir", "delete", "save", "write"}
Unwritten == Inside \ {"save", "write"}

\* Whoever is inside holds the mutex, and the other way round.
HolderInside == \A w \in Workers : pc[w] \in Inside <=> mutex = w

\* Until the holder writes the map, the file agrees with it.
CurrentUntilWritten ==
    \A w \in Workers : pc[w] \in Unwritten /\ ~unsaved => ~torn /\ file = volumes

\* A volume that is about to enter the map has its directory.
MadeBeforeInsert ==
    OwnDirectory => \A w \in Workers : pc[w] \in {"chown", "insert"} => name[w] \in dirs

Basics == TypeOK /\ HolderInside

IndInv ==
    /\ Basics
    /\ CurrentUntilWritten
    /\ FileIsCurrent
    /\ MadeBeforeInsert
    /\ KnownHasDirectory

LEMMA InitIndInv == Init => IndInv
  BY VolumeDriverAssumption
  DEF Init, IndInv, Basics, TypeOK, HolderInside, CurrentUntilWritten, FileIsCurrent,
      MadeBeforeInsert, KnownHasDirectory, Inside, Unwritten, Points, Reading, Writing

\* The shape of a step: the type and who is inside.
LEMMA BasicsStep == Basics /\ [Next]_vars => Basics'
  <1> SUFFICES ASSUME Basics, [Next]_vars PROVE Basics'
    OBVIOUS
  <1> USE VolumeDriverAssumption
          DEF Basics, TypeOK, HolderInside, Inside, Points, Reading, Writing
  <1>1. CASE UNCHANGED vars
    BY <1>1 DEF vars, request
  <1>2. ASSUME NEW w \in Workers, NEW op \in DOMAIN FirstPoint, NEW n \in Names,
               Request(w, op, n)
        PROVE  Basics'
    BY <1>2 DEF Request, FirstPoint, Goto, history
  <1>3. ASSUME NEW w \in Workers, Lock(w) PROVE Basics'
    BY <1>3 DEF Lock, Goto, history
  <1>4. ASSUME NEW w \in Workers, Serve(w) PROVE Basics'
    <2>1. CASE Get(w)
      BY <2>1 DEF Get, Goto, history
    <2>2. CASE Read(w)
      BY <2>2 DEF Read, Goto, history
    <2>3. CASE FindVolume(w)
      BY <2>3 DEF FindVolume, Goto, history
    <2>4. CASE VolumeExists(w)
      BY <2>4 DEF VolumeExists, Return, Goto, Keep, history
    <2>5. CASE VolumeIsNew(w)
      BY <2>5 DEF VolumeIsNew, Goto, history
    <2>6. CASE MakeDirectory(w)
      BY <2>6 DEF MakeDirectory, Return, Goto, Keep, history
    <2>7. CASE ChangeOwner(w)
      BY <2>7 DEF ChangeOwner, Return, Goto, Keep, history
    <2>8. CASE Insert(w)
      BY <2>8 DEF Insert, Goto
    <2>9. CASE RemoveDirectory(w)
      BY <2>9 DEF RemoveDirectory, Goto, history
    <2>10. CASE Delete(w)
      BY <2>10 DEF Delete, Goto
    <2>11. CASE Truncate(w)
      BY <2>11 DEF Truncate, Goto, history
    <2>12. CASE WriteFile(w)
      BY <2>12 DEF WriteFile, Return, Goto, Keep
    <2>13. CASE SaveFails(w)
      BY <2>13 DEF SaveFails, Return, Goto, Keep
    <2> QED
      BY <1>4, <2>1, <2>2, <2>3, <2>4, <2>5, <2>6, <2>7, <2>8, <2>9, <2>10,
         <2>11, <2>12, <2>13 DEF Serve
  <1>5. CASE Restart
    BY <1>5 DEF Restart
  <1> QED
    BY <1>1, <1>2, <1>3, <1>4, <1>5 DEF Next

\* The file: between the write of the map and that of the file the mutex is held.
LEMMA FileStep ==
    Basics /\ CurrentUntilWritten /\ FileIsCurrent /\ [Next]_vars
        => CurrentUntilWritten' /\ FileIsCurrent'
  <1> SUFFICES ASSUME Basics, CurrentUntilWritten, FileIsCurrent, [Next]_vars
               PROVE  CurrentUntilWritten' /\ FileIsCurrent'
    OBVIOUS
  <1> USE VolumeDriverAssumption
          DEF Basics, TypeOK, HolderInside, CurrentUntilWritten, FileIsCurrent,
              Inside, Unwritten
  <1>1. CASE UNCHANGED vars
    BY <1>1 DEF vars, request
  <1>2. ASSUME NEW w \in Workers, NEW op \in DOMAIN FirstPoint, NEW n \in Names,
               Request(w, op, n)
        PROVE  CurrentUntilWritten' /\ FileIsCurrent'
    BY <1>2 DEF Request, FirstPoint, Goto, history
  <1>3. ASSUME NEW w \in Workers, Lock(w)
        PROVE  CurrentUntilWritten' /\ FileIsCurrent'
    BY <1>3 DEF Lock, Goto, history
  <1>4. ASSUME NEW w \in Workers, Serve(w)
        PROVE  CurrentUntilWritten' /\ FileIsCurrent'
    <2>1. CASE Get(w) \/ Read(w) \/ FindVolume(w)
      BY <2>1 DEF Get, Read, FindVolume, Goto, history
    <2>2. CASE VolumeExists(w)
      BY <2>2 DEF VolumeExists, Return, Goto, Keep, history
    <2>3. CASE VolumeIsNew(w)
      BY <2>3 DEF VolumeIsNew, Goto, history
    <2>4. CASE MakeDirectory(w)
      BY <2>4 DEF MakeDirectory, Return, Goto, Keep, history
    <2>5. CASE ChangeOwner(w)
      BY <2>5 DEF ChangeOwner, Return, Goto, Keep, history
    <2>6. CASE Insert(w)
      BY <2>6 DEF Insert, Goto
    <2>7. CASE RemoveDirectory(w)
      BY <2>7 DEF RemoveDirectory, Goto, history
    <2>8. CASE Delete(w)
      BY <2>8 DEF Delete, Goto
    <2>9. CASE Truncate(w)
      BY <2>9 DEF Truncate, Goto, history
    <2>10. CASE WriteFile(w)
      BY <2>10 DEF WriteFile, Return, Goto, Keep
    <2>11. CASE SaveFails(w)
      BY <2>11 DEF SaveFails, Return, Goto, Keep
    <2> QED
      BY <1>4, <2>1, <2>2, <2>3, <2>4, <2>5, <2>6, <2>7, <2>8, <2>9, <2>10, <2>11
      DEF Serve
  <1>5. CASE Restart
    BY <1>5 DEF Restart
  <1> QED
    BY <1>1, <1>2, <1>3, <1>4, <1>5 DEF Next

\* The directories: they are made before their volume is known and, but for the
\* moment of its removal, stay as long as it is.
LEMMA DirectoryStep ==
    Basics /\ MadeBeforeInsert /\ KnownHasDirectory /\ [Next]_vars
        => MadeBeforeInsert' /\ KnownHasDirectory'
  <1> SUFFICES ASSUME Basics, MadeBeforeInsert, KnownHasDirectory, [Next]_vars,
                      OwnDirectory
               PROVE  MadeBeforeInsert' /\ KnownHasDirectory'
    BY DEF MadeBeforeInsert, KnownHasDirectory
  <1> USE VolumeDriverAssumption
          DEF Basics, TypeOK, HolderInside, MadeBeforeInsert, KnownHasDirectory, Inside
  <1>1. CASE UNCHANGED vars
    BY <1>1 DEF vars, request
  <1>2. ASSUME NEW w \in Workers, NEW op \in DOMAIN FirstPoint, NEW n \in Names,
               Request(w, op, n)
        PROVE  MadeBeforeInsert' /\ KnownHasDirectory'
    BY <1>2 DEF Request, FirstPoint, Goto, history
  <1>3. ASSUME NEW w \in Workers, Lock(w)
        PROVE  MadeBeforeInsert' /\ KnownHasDirectory'
    BY <1>3 DEF Lock, Goto, history
  <1>4. ASSUME NEW w \in Workers, Serve(w)
        PROVE  MadeBeforeInsert' /\ KnownHasDirectory'
    <2>1. CASE Get(w) \/ Read(w) \/ FindVolume(w)
      BY <2>1 DEF Get, Read, FindVolume, Goto, history
    <2>2. CASE VolumeExists(w)
      BY <2>2 DEF VolumeExists, Return, Goto, Keep, history
    <2>3. CASE VolumeIsNew(w)
      BY <2>3 DEF VolumeIsNew, Goto, history
    <2>4. CASE MakeDirectory(w)
      BY <2>4 DEF MakeDirectory, Return, Goto, Keep, history
    <2>5. CASE ChangeOwner(w)
      BY <2>5 DEF ChangeOwner, Return, Goto, Keep, history
    <2>6. CASE Insert(w)
      BY <2>6 DEF Insert, Goto
    <2>7. CASE RemoveDirectory(w)
      BY <2>7 DEF RemoveDirectory, Goto, history
    <2>8. CASE Delete(w)
      BY <2>8 DEF Delete, Goto
    <2>9. CASE Truncate(w)
      BY <2>9 DEF Truncate, Goto, history
    <2>10. CASE WriteFile(w)
      BY <2>10 DEF WriteFile, Return, Goto, Keep
    <2>11. CASE SaveFails(w)
      BY <2>11 DEF SaveFails, Return, Goto, Keep
    <2> QED
      BY <1>4, <2>1, <2>2, <2>3, <2>4, <2>5, <2>6, <2>7, <2>8, <2>9, <2>10, <2>11
      DEF Serve
  <1>5. CASE Restart
    BY <1>5 DEF Restart
  <1> QED
    BY <1>1, <1>2, <1>3, <1>4, <1>5 DEF Next

LEMMA DriverInvariance == Spec => []IndInv
  <1>1. IndInv /\ [Next]_vars => IndInv'
    BY BasicsStep, FileStep, DirectoryStep DEF IndInv
  <1> QED
    BY InitIndInv, <1>1, PTL DEF Spec

\* Whenever nobody is inside, and unless the last write of it failed, the state
\* file of Create and Remove lists the volumes of the map: for any number of
\* goroutines and volumes, and restarts at every step.
THEOREM FileIsCurrentHolds == Spec => []FileIsCurrent
  <1>1. IndInv => FileIsCurrent
    BY DEF IndInv
  <1> QED
    BY DriverInvariance, <1>1, PTL

\* Every volume of localPublicDriver has its directory, but for the one that is
\* being removed and those a restart has brought back.
THEOREM KnownHasDirectoryHolds == Spec => []KnownHasDirectory
  <1>1. IndInv => KnownHasDirectory
    BY DEF IndInv
  <1> QED
    BY DriverInvariance, <1>1, PTL
================================================================================

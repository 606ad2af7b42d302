-------------------------- MODULE VaultFileProofs --------------------------
(***************************************************************************)
(* When the calls of `write` exclude one another (Serial = Writers), the   *)
(* vault path never shows a half-written document, whatever errors, kills  *)
(* and power losses happen, and the system calls implement the one-cell    *)
(* vault of AtomicVault.  For any number of threads, documents and inodes. *)
(***************************************************************************)
EXTENDS VaultFile, TLAPS

\* The parts of the invariant besides the types.
Rest == OneWriter /\ VaultSettled /\ NamesApart /\ TmpReady /\ BakReady

\* The program starts with no file and nothing open.
LEMMA InitInv == Init => IInv
  BY MarksAssumption
  DEF Init, IInv, TypeOK, OneWriter, VaultSettled, NamesApart, TmpReady,
      BakReady, Names, Contents, Phases

\* Every step keeps descriptors, names and contents well-typed, and opens
\* and closes descriptors as TypeOK says.
LEMMA TypeStep == ASSUME TypeOK, [Next]_vars PROVE TypeOK'
<1> USE MarksAssumption, SerialAssumption DEF TypeOK, Names, Contents, Phases,
        Goto, Open
<1>1. ASSUME NEW w \in Writers, NEW d \in Docs, Begin(w, d)
      PROVE  TypeOK'
  BY <1>1 DEF Begin
<1>2. ASSUME NEW w \in Writers, OpenTmpFails(w) PROVE TypeOK'
  BY <1>2 DEF OpenTmpFails
<1>3. ASSUME NEW w \in Writers, OpenTmp(w) PROVE TypeOK'
  BY <1>3 DEF OpenTmp, Truncates
<1>4. ASSUME NEW w \in Writers, WriteAll(w) PROVE TypeOK'
  BY <1>4 DEF WriteAll
<1>5. ASSUME NEW w \in Writers, WriteFails(w) PROVE TypeOK'
  BY <1>5 DEF WriteFails
<1>6. ASSUME NEW w \in Writers, SyncAll(w) PROVE TypeOK'
  BY <1>6 DEF SyncAll
<1>7. ASSUME NEW w \in Writers, SyncFails(w) PROVE TypeOK'
  BY <1>7 DEF SyncFails
<1>8. ASSUME NEW w \in Writers, BakSkipped(w) PROVE TypeOK'
  BY <1>8 DEF BakSkipped
<1>9. ASSUME NEW w \in Writers, BakOpen(w) PROVE TypeOK'
  BY <1>9 DEF BakOpen, Truncates
<1>10. ASSUME NEW w \in Writers, BakCopy(w) PROVE TypeOK'
  BY <1>10 DEF BakCopy
<1>11. ASSUME NEW w \in Writers, BakFails(w) PROVE TypeOK'
  BY <1>11 DEF BakFails
<1>12. ASSUME NEW w \in Writers, Rename(w) PROVE TypeOK'
  BY <1>12 DEF Rename
<1>13. ASSUME NEW w \in Writers, RenameFails(w) PROVE TypeOK'
  BY <1>13 DEF RenameFails
<1>14. ASSUME NEW w \in Writers, Return(w) PROVE TypeOK'
  BY <1>14 DEF Return
<1>15. ASSUME NEW i \in Inodes, FlushInode(i) PROVE TypeOK'
  BY <1>15 DEF FlushInode
<1>16. CASE FlushDir
  BY <1>16 DEF FlushDir
<1>17. CASE Crash
  BY <1>17 DEF Crash, ProcessGone, fsVars
<1>18. CASE PowerLoss
  BY <1>18 DEF PowerLoss, ProcessGone
<1>19. CASE UNCHANGED vars
  BY <1>19 DEF vars
<1>20. QED
  BY <1>1, <1>2, <1>3, <1>4, <1>5, <1>6, <1>7, <1>8, <1>9, <1>10, <1>11,
     <1>12, <1>13, <1>14, <1>15, <1>16, <1>17, <1>18, <1>19
  DEF Next, Step, Device

\* The types and descriptors are right whether or not the calls overlap.
THEOREM TypeCorrect == Spec => []TypeOK
<1>1. Init => TypeOK
  BY InitInv DEF IInv
<1>2. TypeOK /\ [Next]_vars => TypeOK'
  BY TypeStep
<1>3. QED
  BY <1>1, <1>2, PTL DEF Spec

\* One step of exclusive callers keeps the invariant.  Two facts carry the
\* argument: the only inodes a call truncates or writes are the ones named
\* "tmp" and "bak", which are never a vault inode; and the inode that the
\* rename publishes was filled and fsynced by the same call.
LEMMA InvStep ==
  ASSUME Serial = Writers, IInv, [Next]_vars PROVE IInv'
<1>0. TypeOK'
  BY TypeStep DEF IInv
<1> USE <1>0, MarksAssumption DEF IInv, TypeOK, Names, Contents, Phases,
        Goto, Open
<1>1. ASSUME NEW w \in Writers, NEW d \in Docs, Begin(w, d)
      PROVE  Rest'
  <2>1. phase[w] = "idle" /\ \A v \in Writers : phase[v] = "idle"
    BY <1>1 DEF Begin
  <2>2. QED
    BY <1>1, <2>1 DEF Begin, OneWriter, VaultSettled,
       NamesApart, TmpReady, BakReady, Rest
<1>2. ASSUME NEW w \in Writers, OpenTmpFails(w) PROVE Rest'
  BY <1>2 DEF OpenTmpFails, OneWriter, VaultSettled, NamesApart, TmpReady,
     BakReady, Rest
<1>3. ASSUME NEW w \in Writers, OpenTmp(w) PROVE Rest'
  <2>1. OneWriter' /\ NamesApart'
    BY <1>3 DEF OpenTmp, Truncates, Free, OneWriter, NamesApart
  <2>2. VaultSettled'
    BY <1>3 DEF OpenTmp, Truncates, Free, VaultSettled, NamesApart
  <2>3. TmpReady'
    BY <1>3 DEF OpenTmp, Truncates, Free, OneWriter, TmpReady
  <2>4. BakReady'
    BY <1>3 DEF OpenTmp, Truncates, Free, NamesApart, BakReady
  <2>5. QED
    BY <2>1, <2>2, <2>3, <2>4 DEF Rest
<1>4. ASSUME NEW w \in Writers, WriteAll(w) PROVE Rest'
  <2>1. OneWriter' /\ NamesApart'
    BY <1>4 DEF WriteAll, OneWriter, NamesApart
  <2>2. VaultSettled'
    BY <1>4 DEF WriteAll, VaultSettled, TmpReady
  <2>3. TmpReady'
    BY <1>4 DEF WriteAll, OneWriter, TmpReady
  <2>4. BakReady'
    BY <1>4 DEF WriteAll, TmpReady, BakReady
  <2>5. QED
    BY <2>1, <2>2, <2>3, <2>4 DEF Rest
<1>5. ASSUME NEW w \in Writers, WriteFails(w) PROVE Rest'
  <2>1. OneWriter' /\ NamesApart'
    BY <1>5 DEF WriteFails, OneWriter, NamesApart
  <2>2. VaultSettled'
    BY <1>5 DEF WriteFails, VaultSettled, TmpReady
  <2>3. TmpReady'
    BY <1>5 DEF WriteFails, OneWriter, TmpReady
  <2>4. BakReady'
    BY <1>5 DEF WriteFails, TmpReady, BakReady
  <2>5. QED
    BY <2>1, <2>2, <2>3, <2>4 DEF Rest
<1>6. ASSUME NEW w \in Writers, SyncAll(w) PROVE Rest'
  BY <1>6 DEF SyncAll, OneWriter, VaultSettled, NamesApart, TmpReady,
     BakReady, Rest
<1>7. ASSUME NEW w \in Writers, SyncFails(w) PROVE Rest'
  BY <1>7 DEF SyncFails, OneWriter, VaultSettled, NamesApart, TmpReady,
     BakReady, Rest
<1>8. ASSUME NEW w \in Writers, BakSkipped(w) PROVE Rest'
  BY <1>8 DEF BakSkipped, OneWriter, VaultSettled, NamesApart, TmpReady,
     BakReady, Rest
<1>9. ASSUME NEW w \in Writers, BakOpen(w) PROVE Rest'
  <2>1. OneWriter' /\ NamesApart'
    BY <1>9 DEF BakOpen, Truncates, Free, OneWriter, NamesApart
  <2>2. VaultSettled'
    BY <1>9 DEF BakOpen, Truncates, Free, VaultSettled, NamesApart
  <2>3. TmpReady'
    BY <1>9 DEF BakOpen, Truncates, Free, NamesApart, TmpReady
  <2>4. BakReady'
    BY <1>9 DEF BakOpen, Truncates, Free, OneWriter, BakReady
  <2>5. QED
    BY <2>1, <2>2, <2>3, <2>4 DEF Rest
<1>10. ASSUME NEW w \in Writers, BakCopy(w) PROVE Rest'
  <2>1. OneWriter' /\ NamesApart' /\ BakReady'
    BY <1>10 DEF BakCopy, OneWriter, NamesApart, BakReady
  <2>2. VaultSettled'
    BY <1>10 DEF BakCopy, VaultSettled, NamesApart, BakReady
  <2>3. TmpReady'
    BY <1>10 DEF BakCopy, NamesApart, TmpReady, BakReady
  <2>4. QED
    BY <2>1, <2>2, <2>3 DEF Rest
<1>11. ASSUME NEW w \in Writers, BakFails(w) PROVE Rest'
  <2>1. OneWriter' /\ NamesApart'
    BY <1>11 DEF BakFails, OneWriter, NamesApart
  <2>2. VaultSettled'
    BY <1>11 DEF BakFails, VaultSettled, NamesApart, BakReady
  <2>3. TmpReady'
    BY <1>11 DEF BakFails, NamesApart, TmpReady, BakReady
  <2>4. BakReady'
    BY <1>11 DEF BakFails, OneWriter, BakReady
  <2>5. QED
    BY <2>1, <2>2, <2>3, <2>4 DEF Rest
<1>12. ASSUME NEW w \in Writers, Rename(w) PROVE Rest'
  <2>1. OneWriter' /\ NamesApart'
    BY <1>12 DEF Rename, OneWriter, NamesApart
  <2>2. VaultSettled'
    BY <1>12 DEF Rename, VaultSettled, TmpReady
  <2>3. TmpReady'
    BY <1>12 DEF Rename, OneWriter, TmpReady
  <2>4. BakReady'
    BY <1>12 DEF Rename, OneWriter, BakReady
  <2>5. QED
    BY <2>1, <2>2, <2>3, <2>4 DEF Rest
<1>13. ASSUME NEW w \in Writers, RenameFails(w) PROVE Rest'
  BY <1>13 DEF RenameFails, OneWriter, VaultSettled, NamesApart, TmpReady,
     BakReady, Rest
<1>14. ASSUME NEW w \in Writers, Return(w) PROVE Rest'
  BY <1>14 DEF Return, OneWriter, VaultSettled, NamesApart, TmpReady,
     BakReady, Rest
<1>15. ASSUME NEW i \in Inodes, FlushInode(i) PROVE Rest'
  BY <1>15 DEF FlushInode, OneWriter, VaultSettled, NamesApart, TmpReady,
     BakReady, Rest
<1>16. ASSUME FlushDir PROVE Rest'
  BY <1>16 DEF FlushDir, OneWriter, VaultSettled, NamesApart, TmpReady,
     BakReady, Rest
<1>17. ASSUME Crash PROVE Rest'
  BY <1>17 DEF Crash, ProcessGone, fsVars, OneWriter, VaultSettled,
     NamesApart, TmpReady, BakReady, Rest
<1>18. ASSUME PowerLoss PROVE Rest'
  BY <1>18 DEF PowerLoss, ProcessGone, OneWriter, VaultSettled, NamesApart,
     TmpReady, BakReady, Rest
<1>19. ASSUME UNCHANGED vars PROVE Rest'
  BY <1>19 DEF vars, OneWriter, VaultSettled, NamesApart, TmpReady,
     BakReady, Rest
<1>20. Rest'
  BY <1>1, <1>2, <1>3, <1>4, <1>5, <1>6, <1>7, <1>8, <1>9, <1>10, <1>11,
     <1>12, <1>13, <1>14, <1>15, <1>16, <1>17, <1>18, <1>19
  DEF Next, Step, Device
<1>21. QED
  BY <1>0, <1>20 DEF Rest

\* The invariant holds throughout every behaviour of exclusive callers.
THEOREM Invariance == ASSUME Serial = Writers PROVE Spec => []IInv
<1>1. Init => IInv
  BY InitInv
<1>2. IInv /\ [Next]_vars => IInv'
  BY InvStep
<1>3. QED
  BY <1>1, <1>2, PTL DEF Spec

\* vault.rs:174-177: no reader, no restart after a kill and no restart after
\* a power loss sees a half-written vault, for any number of threads.
THEOREM WholeVault == ASSUME Serial = Writers PROVE Spec => []NeverHalfWritten
<1>1. IInv => NeverHalfWritten
  BY DEF IInv, VaultSettled, NeverHalfWritten, ContentOf
<1>2. QED
  BY <1>1, Invariance, PTL

\* vault.rs:209-214: the rollback copy is the replaced document.
THEOREM Rollback == ASSUME Serial = Writers PROVE Spec => RollbackKept
<1> DEFINE Kept == \A w \in Writers :
        (phase[w] = "rename" /\ phase'[w] = "ok" /\ src[w] # NoFile)
            => ContentOf("bak")' = ContentOf("vault")
<1>1. ASSUME IInv, [Next]_vars PROVE Kept
  <2> SUFFICES ASSUME NEW w \in Writers,
                      phase[w] = "rename", phase'[w] = "ok", src[w] # NoFile
               PROVE  ContentOf("bak")' = ContentOf("vault")
    OBVIOUS
  <2>1. data' = data /\ dir'["bak"] = dir["bak"]   \* only a Rename does this
    BY <1>1 DEF IInv, TypeOK, Names, Phases, Next, Step, Device, vars, Goto,
       Begin, OpenTmpFails, OpenTmp, WriteAll,
       WriteFails, SyncAll, SyncFails, BakSkipped, BakOpen, BakCopy, BakFails,
       Rename, RenameFails, Return, FlushInode, FlushDir, Crash, PowerLoss,
       ProcessGone
  <2>2. src[w] = dir["vault"] /\ dir["bak"] # NoFile
        /\ data[dir["bak"]] = data[dir["vault"]]
    BY <1>1 DEF IInv, BakReady
  <2>3. QED
    BY <2>1, <2>2 DEF ContentOf
<1>2. QED
  BY <1>1, Invariance, PTL DEF Spec, RollbackKept

\* A durable vault never goes missing, even when calls of `write` overlap.
THEOREM NoGap == Spec => VaultStays
<1> DEFINE Stays == dir["vault"] # NoFile /\ diskDir["vault"] # NoFile
                       => dir'["vault"] # NoFile /\ diskDir'["vault"] # NoFile
<1>1. ASSUME TypeOK, [Next]_vars PROVE Stays
  BY <1>1 DEF TypeOK, Names, Next, Step, Device, vars, fsVars, Truncates,
     Begin, OpenTmpFails, OpenTmp, WriteAll,
     WriteFails, SyncAll, SyncFails, BakSkipped, BakOpen, BakCopy, BakFails,
     Rename, RenameFails, Return, FlushInode, FlushDir, Crash, PowerLoss
<1>2. QED
  BY <1>1, TypeCorrect, PTL DEF Spec, VaultStays

-----------------------------------------------------------------------------
\* What the abstract specification sees.
Seen == <<ContentOf("vault"), Durable, [w \in Writers |-> Call(w)], doc>>

\* A step inside a call that leaves the vault inodes alone is a stutter.
LEMMA Stutter ==
  ASSUME IInv, NEW w \in Writers,
         OpenTmp(w) \/ WriteAll(w) \/ SyncAll(w) \/ BakSkipped(w)
             \/ BakOpen(w) \/ BakCopy(w) \/ BakFails(w)
  PROVE  Seen' = Seen
<1> USE MarksAssumption DEF IInv, TypeOK, Names
<1>1. dir'["vault"] = dir["vault"] /\ diskDir' = diskDir /\ doc' = doc
  BY DEF OpenTmp, WriteAll, SyncAll, BakSkipped, BakOpen, BakCopy, BakFails,
         Truncates
<1>2. \A i \in {dir["vault"], diskDir["vault"]} \ {NoFile} :
          data'[i] = data[i] /\ disk'[i] = disk[i]
  BY DEF OpenTmp, WriteAll, SyncAll, BakSkipped, BakOpen, BakCopy, BakFails,
         Truncates, Free, NamesApart, TmpReady, BakReady
<1>3. \A v \in Writers : Call(v)' = Call(v)
  BY DEF OpenTmp, WriteAll, SyncAll, BakSkipped, BakOpen, BakCopy, BakFails,
         Goto, Call
<1>4. QED
  BY <1>1, <1>2, <1>3 DEF Seen, ContentOf, Durable

\* An error leaves the vault inodes alone and ends the call.
LEMMA Failure ==
  ASSUME IInv, NEW w \in Writers,
         OpenTmpFails(w) \/ WriteFails(w) \/ SyncFails(w) \/ RenameFails(w)
  PROVE  AV!Abort(w)
<1> USE MarksAssumption DEF IInv, TypeOK, Names
<1>1. dir' = dir /\ diskDir' = diskDir /\ doc' = doc /\ disk' = disk
  BY DEF OpenTmpFails, WriteFails, SyncFails, RenameFails
<1>2. \A i \in {dir["vault"], diskDir["vault"]} \ {NoFile} : data'[i] = data[i]
  BY DEF OpenTmpFails, WriteFails, SyncFails, RenameFails, NamesApart, TmpReady
<1>3. Call(w) = "busy" /\ Call(w)' = "err"
      /\ \A v \in Writers : v # w => Call(v)' = Call(v)
  BY DEF OpenTmpFails, WriteFails, SyncFails, RenameFails, Goto, Call
<1>4. ContentOf("vault")' = ContentOf("vault") /\ Durable' = Durable
  BY <1>1, <1>2 DEF ContentOf, Durable
<1>5. QED
  BY <1>1, <1>3, <1>4 DEF AV!Abort

\* Every step of the system calls is a step of the one-cell vault.
LEMMA RefinementStep ==
  ASSUME Serial = Writers, IInv, IInv', [Next]_vars
  PROVE  [AV!Next]_(AV!vars)
<1> USE MarksAssumption DEF IInv, TypeOK, Names
<1>1. ASSUME NEW w \in Writers, NEW d \in Docs, Begin(w, d)
      PROVE  AV!Begin(w, d)
  BY <1>1 DEF Begin, Goto, Call, ContentOf, Durable, AV!Begin
<1>2. ASSUME NEW w \in Writers, Rename(w) PROVE AV!Commit(w)
  <2>1. ContentOf("vault")' = doc[w]
    BY <1>2 DEF Rename, ContentOf, TmpReady
  <2>2. Durable' = Durable /\ doc' = doc
    BY <1>2 DEF Rename, Durable
  <2>3. Call(w) = "busy" /\ Call(w)' = "ok"
        /\ \A v \in Writers : v # w => Call(v)' = Call(v)
    BY <1>2 DEF Rename, Goto, Call
  <2>4. QED
    BY <2>1, <2>2, <2>3 DEF AV!Commit
<1>3. ASSUME NEW w \in Writers, Return(w) PROVE AV!Return(w)
  BY <1>3 DEF Return, Goto, Call, ContentOf, Durable, AV!Return
<1>4. ASSUME NEW i \in Inodes, FlushInode(i) PROVE Seen' = Seen
  BY <1>4 DEF FlushInode, Seen, ContentOf, Durable, Call, VaultSettled
<1>5. ASSUME FlushDir PROVE AV!Harden
  BY <1>5 DEF FlushDir, ContentOf, Durable, Call, VaultSettled, AV!Harden
<1>6. ASSUME Crash PROVE AV!Crash
  BY <1>6 DEF Crash, ProcessGone, fsVars, ContentOf, Durable, Call, AV!Crash
<1>7. ASSUME PowerLoss PROVE AV!PowerLoss
  BY <1>7 DEF PowerLoss, ProcessGone, ContentOf, Durable, Call, VaultSettled,
     AV!PowerLoss
<1>8. ASSUME UNCHANGED vars PROVE Seen' = Seen
  BY <1>8 DEF vars, Seen, ContentOf, Durable, Call
<1>9. ASSUME Seen' = Seen PROVE UNCHANGED AV!vars
  BY <1>9 DEF Seen, AV!vars
<1>10. QED
  BY <1>1, <1>2, <1>3, <1>4, <1>5, <1>6, <1>7, <1>8, <1>9, Stutter, Failure
  DEF Next, Step, Device, AV!Next

\* `write` implements the atomic vault that its callers rely on.
THEOREM Refinement ==
  ASSUME Serial = Writers PROVE Spec => ImplementsAtomicVault
<1>1. Init => AV!Init
  BY DEF Init, AV!Init, ContentOf, Durable, Call, Names
<1>2. IInv /\ IInv' /\ [Next]_vars => [AV!Next]_(AV!vars)
  BY RefinementStep
<1>3. QED
  BY <1>1, <1>2, Invariance, PTL DEF Spec, ImplementsAtomicVault, AV!Spec
=============================================================================

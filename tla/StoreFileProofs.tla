-------------------------- MODULE StoreFileProofs --------------------------
(***************************************************************************)
(* Theorems about StoreFile: for every number of processes, documents and  *)
(* inodes, the file is sound, what is left behind is accounted for, and    *)
(* the detailed file implements the register of StoreRegister.             *)
(***************************************************************************)
EXTENDS StoreFile, TLAPS

Inv == FilesAreSound /\ LeftoversComeFromKills

LEMMA InvInit == Init => Inv
  BY StoreFileAssumption
  DEF Init, Inv, FilesAreSound, TypeOK, OwnersAreApart, WritersAreFaithful,
      ReadersAreSafe, LeftoversComeFromKills, Steps, AtRest, Owning

\* Every step of a process keeps the invariant.
LEMMA InvStep ==
    ASSUME Inv, NEW p \in Proc, Step(p)
    PROVE  Inv'
<1> USE StoreFileAssumption
    DEF Inv, FilesAreSound, TypeOK, OwnersAreApart, WritersAreFaithful,
        ReadersAreSafe, LeftoversComeFromKills, Steps, AtRest, Owning, GoTo,
        Forget, Unused
<1>1. CASE CallWrite(p)
  BY <1>1 DEF CallWrite
<1>2. CASE Mkstemp(p)
  BY <1>2 DEF Mkstemp
<1>3. CASE MkstempFails(p)
  BY <1>3 DEF MkstempFails
<1>4. CASE Dump(p)
  BY <1>4 DEF Dump
<1>5. CASE DumpFails(p)
  BY <1>5 DEF DumpFails
<1>6. CASE Replace(p)
  BY <1>6 DEF Replace
<1>7. CASE ReplaceFails(p)
  BY <1>7 DEF ReplaceFails
<1>8. CASE Cleanup(p)
  BY <1>8 DEF Cleanup
<1>9. CASE CleanupFails(p)
  BY <1>9 DEF CleanupFails
<1>10. CASE Kill(p)
  BY <1>10 DEF Kill
<1>11. CASE CallRead(p)
  BY <1>11 DEF CallRead
<1>12. CASE NotThere(p)
  BY <1>12 DEF NotThere
<1>13. CASE Exists(p)
  BY <1>13 DEF Exists
<1>14. CASE OpenFails(p)
  BY <1>14 DEF OpenFails
<1>15. CASE Open(p)
  BY <1>15 DEF Open
<1>16. CASE Load(p)
  BY <1>16 DEF Load
<1> QED
  BY <1>1, <1>2, <1>3, <1>4, <1>5, <1>6, <1>7, <1>8, <1>9, <1>10, <1>11, <1>12, <1>13, <1>14, <1>15, <1>16 DEF Step

\* clear disturbs nothing but the name.
LEMMA InvClear == Inv /\ Clear => Inv'
  BY StoreFileAssumption
  DEF Clear, Inv, FilesAreSound, TypeOK, OwnersAreApart, WritersAreFaithful,
      ReadersAreSafe, LeftoversComeFromKills, Owning

LEMMA InvKept == Inv /\ [Next]_vars => Inv'
<1> SUFFICES ASSUME Inv, [Next]_vars PROVE Inv'
  OBVIOUS
<1>1. CASE UNCHANGED vars
  BY <1>1
  DEF vars, Inv, FilesAreSound, TypeOK, OwnersAreApart, WritersAreFaithful,
      ReadersAreSafe, LeftoversComeFromKills, Owning
<1>2. CASE Next
  BY <1>2, InvStep, InvClear DEF Next
<1> QED
  BY <1>1, <1>2

(* For any number of processes: no writer touches a file that a reader may
   see, and what is under the name is a complete document. *)
THEOREM FilesStaySound == Spec => []FilesAreSound
<1>1. Inv => FilesAreSound
  BY DEF Inv
<1> QED
  BY InvInit, InvKept, <1>1, PTL DEF Spec

(* A writer that answered, with a result or an exception, has no temporary
   file any more unless it was killed or os.unlink failed. *)
THEOREM LeftoversAreExplained == Spec => []LeftoversComeFromKills
<1>1. Inv => LeftoversComeFromKills
  BY DEF Inv
<1> QED
  BY InvInit, InvKept, <1>1, PTL DEF Spec

-----------------------------------------------------------------------------
LEMMA RegisterInit == Init => Register!Init
  BY DEF Init, Register!Init, Held, Ops, Args, OpOf

\* Every step of a process is one step of the register, or none.
LEMMA RegisterStep ==
    ASSUME Inv, NEW p \in Proc, Step(p)
    PROVE  Register!Next \/ UNCHANGED Register!vars
<1> USE StoreFileAssumption
    DEF Inv, FilesAreSound, TypeOK, OwnersAreApart, WritersAreFaithful,
        ReadersAreSafe, Steps, AtRest, Owning, GoTo, Forget, Held, Ops, Args,
        OpOf, Register!Becomes, Register!Quiet
<1>1. CASE CallWrite(p)
  <2>1. Register!CallWrite(p)
    BY <1>1 DEF CallWrite, Register!CallWrite
  <2> QED
    BY <2>1 DEF Register!Next
<1>2. CASE Mkstemp(p)
  BY <1>2 DEF Mkstemp, Unused, Register!vars
<1>3. CASE MkstempFails(p)
  <2>1. Register!Fail(p)
    BY <1>3 DEF MkstempFails, Register!Fail
  <2> QED
    BY <2>1 DEF Register!Next
<1>4. CASE Dump(p)
  BY <1>4 DEF Dump, Unused, Register!vars
<1>5. CASE DumpFails(p)
  BY <1>5 DEF DumpFails, Unused, Register!vars
<1>6. CASE Replace(p)
  <2>1. Register!TakeEffect(p)
    BY <1>6 DEF Replace, Register!TakeEffect
  <2> QED
    BY <2>1 DEF Register!Next
<1>7. CASE ReplaceFails(p)
  BY <1>7 DEF ReplaceFails, Unused, Register!vars
<1>8. CASE Cleanup(p)
  <2>1. Register!Fail(p)
    BY <1>8 DEF Cleanup, Register!Fail
  <2> QED
    BY <2>1 DEF Register!Next
<1>9. CASE CleanupFails(p)
  <2>1. Register!Fail(p)
    BY <1>9 DEF CleanupFails, Register!Fail
  <2> QED
    BY <2>1 DEF Register!Next
<1>10. CASE Kill(p)
  <2>1. Register!Die(p)
    BY <1>10 DEF Kill, Register!Die
  <2> QED
    BY <2>1 DEF Register!Next
<1>11. CASE CallRead(p)
  <2>1. Register!CallRead(p)
    BY <1>11 DEF CallRead, Register!CallRead
  <2> QED
    BY <2>1 DEF Register!Next
<1>12. CASE NotThere(p)
  <2>1. Register!Observe(p)
    BY <1>12 DEF NotThere, Register!Observe
  <2> QED
    BY <2>1 DEF Register!Next
<1>13. CASE Exists(p)
  BY <1>13 DEF Exists, Unused, Register!vars
<1>14. CASE OpenFails(p)
  <2>1. Register!Observe(p)
    BY <1>14 DEF OpenFails, Register!Observe
  <2> QED
    BY <2>1 DEF Register!Next
<1>15. CASE Open(p)
  <2>1. Register!Observe(p)
    BY <1>15 DEF Open, Register!Observe
  <2> QED
    BY <2>1 DEF Register!Next
<1>16. CASE Load(p)
  BY <1>16 DEF Load, Unused, Register!vars
<1> QED
  BY <1>1, <1>2, <1>3, <1>4, <1>5, <1>6, <1>7, <1>8, <1>9, <1>10, <1>11, <1>12, <1>13, <1>14, <1>15, <1>16 DEF Step

LEMMA RegisterClear == Inv /\ Clear => Register!Remove
  BY DEF Clear, Register!Remove, Held, Ops, Args, OpOf

(* write_json_atomic's promise for any number of readers and writers, with
   failures of every call, kills and clear: StoreFile implements the register
   that the other modules take each JSON file to be. *)
THEOREM FileIsARegister == Spec => StoreKeepsTheRegister
<1>1. Inv /\ [Next]_vars => [Register!Next]_Register!vars
  <2> SUFFICES ASSUME Inv, [Next]_vars PROVE [Register!Next]_Register!vars
    OBVIOUS
  <2>1. CASE UNCHANGED vars
    BY <2>1 DEF vars, Register!vars, Held, Ops, Args, OpOf
  <2>2. CASE Next
    BY <2>2, RegisterStep, RegisterClear DEF Next, Register!Next
  <2> QED
    BY <2>1, <2>2
<1> QED
  BY InvInit, InvKept, RegisterInit, <1>1, PTL
  DEF Spec, StoreKeepsTheRegister, Register!Spec
=============================================================================

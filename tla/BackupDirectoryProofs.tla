------------------------ MODULE BackupDirectoryProofs ------------------------
(***************************************************************************)
(* Theorems about the local backup directory, for any number of parallel   *)
(* downloads.                                                              *)
(***************************************************************************)
EXTENDS BackupDirectory, TLAPS

\* A truncated file has no whole entry that was not to be written.
LEMMA TruncationsAre ==
    ASSUME NEW es \in SUBSET Entries, NEW ts \in Truncations(es)
    PROVE  /\ ts \in SUBSET Entries
           /\ \A e \in ts : e[2] \in Artifacts => e \in es
           /\ es = {} => ts = {}
<1>1. CASE ts \in SUBSET es
  BY <1>1
<1>2. ASSUME NEW kept \in (SUBSET es) \ {es}, NEW f \in Files, ts = kept \cup {<<f, "bare">>}
      PROVE  ts \in SUBSET Entries /\ \A e \in ts : e[2] \in Artifacts => e \in es
  BY <1>2, NamesAssumption DEF Entries
<1>3. ASSUME NEW kept \in (SUBSET es) \ {es}, NEW d \in es, ts = kept \cup {<<d[1], "cut">>}
      PROVE  ts \in SUBSET Entries /\ \A e \in ts : e[2] \in Artifacts => e \in es
  BY <1>3, NamesAssumption DEF Entries
<1>4. CASE ts \notin SUBSET es
  <2>1. PICK kept \in (SUBSET es) \ {es} :
           ts \in {kept \cup {<<f, "bare">>} : f \in Files}
                  \cup {kept \cup {<<e[1], "cut">>} : e \in es \ kept}
    BY <1>4, Zenon DEF Truncations
  <2>2. \/ \E f \in Files : ts = kept \cup {<<f, "bare">>}
        \/ \E d \in es : ts = kept \cup {<<d[1], "cut">>}
    BY <2>1
  <2>3. es # {}
    BY <2>1
  <2> QED
    BY <1>2, <1>3, <2>2, <2>3
<1> QED
  BY <1>1, <1>4

\* What a write of the metadata file leaves of it, completed or not.
LEMMA SavesAre ==
    ASSUME TypeOK, NEW es \in SUBSET Entries, Save(es) \/ TornSave(es)
    PROVE  /\ metadata' \in {"none", "broken", "readable"} /\ entries' \in SUBSET Entries
           /\ torn' \in BOOLEAN
           /\ \A e \in entries' : e[2] \in Artifacts => e \in es \cup entries
           /\ es = {} => entries' \subseteq entries
           /\ ~torn' => ~torn /\ metadata' = "readable" /\ entries' = es
<1>1. CASE Save(es)
  BY <1>1 DEF Save, TypeOK
<1>2. CASE TornSave(es)
  BY <1>2, TruncationsAre DEF TornSave, TypeOK
<1> QED
  BY <1>1, <1>2

\* The variables keep their types, and the mutex excludes: at most one AddChecksum
\* is between its read and its save, and it holds the mutex.
THEOREM TypeCorrect == Spec => []TypeOK
<1> USE NamesAssumption
<1>1. Init => TypeOK
  <2> SUFFICES ASSUME Init PROVE TypeOK
    OBVIOUS
  <2>1. pc \in [Artifacts -> {"ready"}] /\ \A a \in Artifacts : pc[a] = "ready"
    BY DEF Init
  <2>2. content \in [Files -> Contents] /\ read \in [Artifacts -> SUBSET Entries]
    BY DEF Init, Contents
  <2>3. mutex = NoOne /\ \A a \in Artifacts : a # NoOne
    BY DEF Init
  <2> QED
    BY <2>1, <2>2, <2>3 DEF Init, TypeOK
<1>2. TypeOK /\ [Next]_vars => TypeOK'
  <2> SUFFICES ASSUME TypeOK, [Next]_vars
               PROVE  TypeOK'
    OBVIOUS
  <2>1. CASE CreateMetadataFile
    BY <2>1, SavesAre DEF TypeOK, CreateMetadataFile
  <2>2. CASE Drained
    BY <2>2 DEF TypeOK, Drained
  <2>3. CASE AddFinishTime
    BY <2>3, SavesAre DEF TypeOK, AddFinishTime
  <2>4. CASE Exit
    <3>1. \A a \in Artifacts : read[a] \cup {<<FileOf[a], a>>} \in SUBSET Entries
      BY DEF TypeOK, Entries
    <3> QED
      BY <2>4, <3>1, SavesAre DEF TypeOK, Exit
  <2>5. ASSUME NEW a \in Artifacts, Create(a) \/ Copy(a)
        PROVE  TypeOK'
    BY <2>5 DEF TypeOK, Create, Copy, Error, Contents
  <2>6. ASSUME NEW a \in Artifacts, Compare(a) \/ LockFails(a) \/ Delete(a)
        PROVE  TypeOK'
    BY <2>6 DEF TypeOK, Compare, LockFails, Delete, Error
  <2>7. ASSUME NEW a \in Artifacts, Lock(a)
        PROVE  TypeOK'
    BY <2>7 DEF TypeOK, Lock
  <2>8. ASSUME NEW a \in Artifacts, Add(a)
        PROVE  TypeOK'
    <3>1. read[a] \cup {<<FileOf[a], a>>} \in SUBSET Entries
      BY DEF TypeOK, Entries
    <3> QED
      BY <2>8, <3>1, SavesAre DEF TypeOK, Add, Error
  <2>9. CASE UNCHANGED vars
    BY <2>9 DEF TypeOK, vars
  <2> QED
    BY <2>1, <2>2, <2>3, <2>4, <2>5, <2>6, <2>7, <2>8, <2>9 DEF Next, Step
<1> QED
  BY <1>1, <1>2, PTL DEF Spec

-----------------------------------------------------------------------------

\* All of the artifact is here and its download writes no more.
Settled(a) == content[FileOf[a]] = a /\ pc[a] \notin {"ready", "copying"}

EntryOfSettled(e) == e[2] \in Artifacts => e = <<FileOf[e[2]], e[2]>> /\ Settled(e[2])

\* Every artifact that was compared, deleted, or entered with all its checksums, in the
\* file or in what an AddChecksum has read of it, is settled.
SettledInv ==
    /\ \A a \in Artifacts : pc[a] \in {"compared", "adding", "added", "done"} => Settled(a)
    /\ \A a \in Artifacts : a \notin remote => Settled(a)
    /\ \A e \in entries : EntryOfSettled(e)
    /\ \A a \in Artifacts : \A e \in read[a] : EntryOfSettled(e)

\* What is settled stays so.
LEMMA SettledStays ==
    ASSUME TypeOK, [Next]_vars, NEW a \in Artifacts, Settled(a)
    PROVE  Settled(a)'
<1> USE NamesAssumption
<1>1. CASE CreateMetadataFile \/ Drained \/ AddFinishTime \/ Exit
  BY <1>1 DEF Settled, CreateMetadataFile, Drained, AddFinishTime, Exit
<1>2. ASSUME NEW b \in Artifacts, Create(b) \/ Copy(b)
      PROVE  Settled(a)'
  <2>1. b # a
    BY <1>2 DEF Settled, Create, Copy
  <2>2. FileOf[b] # FileOf[a]
    BY <2>1
  <2> QED
    BY <1>2, <2>1, <2>2 DEF TypeOK, Settled, Create, Copy, Error
<1>3. ASSUME NEW b \in Artifacts, Compare(b) \/ Lock(b) \/ LockFails(b) \/ Add(b) \/ Delete(b)
      PROVE  Settled(a)'
  BY <1>3 DEF TypeOK, Settled, Compare, Lock, LockFails, Add, Delete, Error
<1>4. CASE UNCHANGED vars
  BY <1>4 DEF Settled, vars
<1> QED
  BY <1>1, <1>2, <1>3, <1>4 DEF Next, Step

LEMMA EntryStays ==
    ASSUME TypeOK, [Next]_vars, NEW e, EntryOfSettled(e)
    PROVE  EntryOfSettled(e)'
BY SettledStays DEF EntryOfSettled

LEMMA SettledInvInductive == Spec => []SettledInv
<1> USE NamesAssumption
<1>1. Init => SettledInv
  BY DEF Init, SettledInv
<1>2. TypeOK /\ SettledInv /\ [Next]_vars => SettledInv'
  <2> SUFFICES ASSUME TypeOK, SettledInv, [Next]_vars
               PROVE  SettledInv'
    OBVIOUS
  <2>1. \A a \in Artifacts : Settled(a) => Settled(a)'
    BY SettledStays
  <2>2. \A e : EntryOfSettled(e) => EntryOfSettled(e)'
    BY EntryStays
  <2>3. CASE CreateMetadataFile
    <3>1. entries' \subseteq entries
      BY <2>3, SavesAre DEF CreateMetadataFile
    <3> QED
      BY <2>3, <2>1, <2>2, <3>1 DEF SettledInv, CreateMetadataFile
  <2>4. CASE Drained
    BY <2>4, <2>1, <2>2 DEF SettledInv, Drained
  <2>5. CASE AddFinishTime
    <3>1. \A e \in entries' : e[2] \in Artifacts => e \in entries
      BY <2>5, SavesAre DEF TypeOK, AddFinishTime
    <3> QED
      BY <2>5, <2>1, <2>2, <3>1 DEF SettledInv, AddFinishTime, EntryOfSettled
  <2>6. CASE Exit
    <3>1. \A a \in Artifacts : pc[a] = "adding" =>
             \A e \in read[a] \cup {<<FileOf[a], a>>} : EntryOfSettled(e)
      BY DEF SettledInv, EntryOfSettled
    <3>2. ASSUME NEW es \in SUBSET Entries, \A e \in es : EntryOfSettled(e), TornSave(es)
          PROVE  \A e \in entries' : EntryOfSettled(e)
      BY <3>2, SavesAre DEF SettledInv, EntryOfSettled
    <3>3. \A a \in Artifacts : read[a] \cup {<<FileOf[a], a>>} \in SUBSET Entries
      BY DEF TypeOK, Entries
    <3>4. \A e \in entries' : EntryOfSettled(e)
      BY <2>6, <3>1, <3>2, <3>3 DEF TypeOK, SettledInv, Exit
    <3> QED
      BY <2>6, <2>1, <2>2, <3>4 DEF SettledInv, Exit
  <2>7. ASSUME NEW a \in Artifacts, Create(a) \/ Copy(a) \/ LockFails(a)
        PROVE  SettledInv'
    BY <2>7, <2>1, <2>2 DEF TypeOK, SettledInv, Create, Copy, LockFails, Error
  <2>8. ASSUME NEW a \in Artifacts, Compare(a)
        PROVE  SettledInv'
    <3>1. pc'[a] = "compared" => Settled(a)'
      BY <2>8 DEF TypeOK, Compare, Error, Settled
    <3> QED
      BY <2>8, <2>1, <2>2, <3>1 DEF TypeOK, SettledInv, Compare, Error
  <2>9. ASSUME NEW a \in Artifacts, Lock(a)
        PROVE  SettledInv'
    BY <2>9, <2>1, <2>2 DEF TypeOK, SettledInv, Lock
  <2>10. ASSUME NEW a \in Artifacts, Add(a)
         PROVE  SettledInv'
    <3>1. \A e \in read[a] \cup {<<FileOf[a], a>>} : EntryOfSettled(e)
      BY <2>10 DEF SettledInv, EntryOfSettled, Add
    <3>2. \A e \in entries' : EntryOfSettled(e)
      <4>1. read[a] \cup {<<FileOf[a], a>>} \in SUBSET Entries
        BY DEF TypeOK, Entries
      <4>2. \A e \in entries' : e[2] \in Artifacts =>
               e \in read[a] \cup {<<FileOf[a], a>>} \cup entries
        BY <2>10, <4>1, SavesAre DEF Add
      <4> QED
        BY <3>1, <4>2 DEF SettledInv, EntryOfSettled
    <3>3. Settled(a)
      BY <2>10 DEF SettledInv, Add
    <3> QED
      BY <2>10, <2>1, <2>2, <3>2, <3>3 DEF TypeOK, SettledInv, Add, Error
  <2>11. ASSUME NEW a \in Artifacts, Delete(a)
         PROVE  SettledInv'
    <3>1. Settled(a)
      BY <2>11 DEF SettledInv, Delete
    <3> QED
      BY <2>11, <2>1, <2>2, <3>1 DEF TypeOK, SettledInv, Delete, Error
  <2>12. CASE UNCHANGED vars
    BY <2>12, <2>1, <2>2 DEF SettledInv, vars
  <2> QED
    BY <2>3, <2>4, <2>5, <2>6, <2>7, <2>8, <2>9, <2>10, <2>11, <2>12 DEF Next, Step
<1> QED
  BY <1>1, <1>2, TypeCorrect, PTL DEF Spec

\* As long as no write of the metadata was cut short, the file is there and every entry
\* in it, or read of it, has all its checksums.
WholeInv ==
    ~torn => /\ step # "create" => metadata = "readable"
             /\ \A e \in entries : e[2] \in Artifacts
             /\ \A a \in Artifacts : \A e \in read[a] : e[2] \in Artifacts

LEMMA WholeInvInductive == Spec => []WholeInv
<1> USE NamesAssumption
<1>1. Init => WholeInv
  BY DEF Init, WholeInv
<1>2. TypeOK /\ WholeInv /\ [Next]_vars => WholeInv'
  <2> SUFFICES ASSUME TypeOK, WholeInv, [Next]_vars, ~torn'
               PROVE  /\ step' # "create" => metadata' = "readable"
                      /\ \A e \in entries' : e[2] \in Artifacts
                      /\ \A a \in Artifacts : \A e \in read'[a] : e[2] \in Artifacts
    BY DEF WholeInv
  <2>1. CASE CreateMetadataFile
    BY <2>1, SavesAre DEF WholeInv, CreateMetadataFile
  <2>2. CASE AddFinishTime
    BY <2>2, SavesAre DEF TypeOK, WholeInv, AddFinishTime
  <2>3. CASE Drained \/ Exit
    BY <2>3 DEF WholeInv, Drained, Exit, TornSave
  <2>4. ASSUME NEW a \in Artifacts, Create(a) \/ Copy(a) \/ Compare(a) \/ LockFails(a) \/ Delete(a)
        PROVE  UNCHANGED <<step, metadata, entries, read, torn>>
    BY <2>4 DEF Create, Copy, Compare, LockFails, Delete
  <2>5. ASSUME NEW a \in Artifacts, Lock(a)
        PROVE  WholeInv'
    BY <2>5 DEF TypeOK, WholeInv, Lock
  <2>6. ASSUME NEW a \in Artifacts, Add(a)
        PROVE  WholeInv'
    <3>1. read[a] \cup {<<FileOf[a], a>>} \in SUBSET Entries
      BY DEF TypeOK, Entries
    <3> QED
      BY <2>6, <3>1, SavesAre DEF WholeInv, Add
  <2>7. CASE UNCHANGED vars
    BY <2>7 DEF WholeInv, vars
  <2> QED
    BY <2>1, <2>2, <2>3, <2>4, <2>5, <2>6, <2>7 DEF Next, Step, WholeInv
<1> QED
  BY <1>1, <1>2, TypeCorrect, PTL DEF Spec

\* For any artifacts and at any time, wherever a write of the metadata file was cut off:
\* an entry with all its checksums is of an artifact that is wholly in the directory, and
\* without such a write Valid finds all of the directory valid.
THEOREM AlwaysValid == Spec => []ValidAtAnyTime
<1>1. SettledInv /\ WholeInv => ValidAtAnyTime
  BY DEF SettledInv, WholeInv, EntryOfSettled, Settled, ValidAtAnyTime, Valid, Matches
<1> QED
  BY <1>1, SettledInvInductive, WholeInvInductive, PTL

\* For any artifacts, no step of a backup, failing or interrupted, leaves an artifact
\* without a whole copy.
THEOREM AlwaysOneWholeCopy == Spec => []OneWholeCopy
<1>1. SettledInv => OneWholeCopy
  BY DEF SettledInv, Settled, OneWholeCopy
<1> QED
  BY <1>1, SettledInvInductive, PTL

-----------------------------------------------------------------------------

\* The one who holds the mutex has read the file as it is, so that its save loses
\* nothing; a drain step that reported no error has run every download to its end.
KeptInv ==
    /\ step = "create" => \A a \in Artifacts : pc[a] = "ready"
    /\ step = "drain" => \A a \in Artifacts : pc[a] = "adding" => read[a] = entries
    /\ NoChecksumLost
    /\ step \in {"finish", "end"} /\ ~failed => \A a \in Artifacts : pc[a] = "done"

LEMMA KeptInvInductive == Spec => []KeptInv
<1> USE NamesAssumption
<1>1. Init => KeptInv
  BY DEF Init, KeptInv, NoChecksumLost
<1>2. TypeOK /\ KeptInv /\ [Next]_vars => KeptInv'
  <2> SUFFICES ASSUME TypeOK, KeptInv, [Next]_vars
               PROVE  KeptInv'
    OBVIOUS
  <2>1. CASE CreateMetadataFile
    BY <2>1, SavesAre DEF TypeOK, KeptInv, NoChecksumLost, CreateMetadataFile
  <2>2. CASE Drained
    BY <2>2 DEF TypeOK, KeptInv, NoChecksumLost, Drained
  <2>3. CASE AddFinishTime
    BY <2>3, SavesAre DEF TypeOK, KeptInv, NoChecksumLost, AddFinishTime
  <2>4. CASE Exit
    <3>1. step' = "exited" /\ UNCHANGED pc /\ (torn' \/ UNCHANGED <<entries, torn>>)
      BY <2>4 DEF Exit, TornSave
    <3> QED
      BY <3>1 DEF KeptInv, NoChecksumLost
  <2>5. ASSUME NEW a \in Artifacts, Create(a) \/ Copy(a) \/ Compare(a) \/ LockFails(a)
        PROVE  KeptInv'
    BY <2>5 DEF TypeOK, KeptInv, NoChecksumLost, Create, Copy, Compare, LockFails, Error
  <2>6. ASSUME NEW a \in Artifacts, Lock(a)
        PROVE  KeptInv'
    BY <2>6 DEF TypeOK, KeptInv, NoChecksumLost, Lock
  <2>7. ASSUME NEW a \in Artifacts, Add(a)
        PROVE  KeptInv'
    <3>1. step = "drain" /\ step' = "drain" /\ read[a] = entries
      BY <2>7 DEF KeptInv, Add
    <3>2. \A b \in Artifacts : b # a => pc[b] # "adding" /\ pc'[b] = pc[b]
      BY <2>7 DEF TypeOK, Add, Error
    <3>3. pc'[a] \in {"added", "failed"}
      BY <2>7 DEF TypeOK, Add, Error
    <3>4. ~torn' => ~torn /\ entries' = entries \cup {<<FileOf[a], a>>}
      BY <2>7, <3>1 DEF TypeOK, Add, Save, TornSave
    <3>5. NoChecksumLost'
      BY <3>2, <3>3, <3>4 DEF KeptInv, NoChecksumLost
    <3> QED
      BY <3>1, <3>2, <3>3, <3>5 DEF KeptInv
  <2>8. ASSUME NEW a \in Artifacts, Delete(a)
        PROVE  KeptInv'
    BY <2>8 DEF TypeOK, KeptInv, NoChecksumLost, Delete, Error
  <2>9. CASE UNCHANGED vars
    BY <2>9 DEF KeptInv, NoChecksumLost, vars
  <2> QED
    BY <2>1, <2>2, <2>3, <2>4, <2>5, <2>6, <2>7, <2>8, <2>9 DEF Next, Step
<1> QED
  BY <1>1, <1>2, TypeCorrect, PTL DEF Spec

\* For any number of concurrent downloads, a checksum that was added is never lost to
\* another's write.
THEOREM ChecksumsAreKept == Spec => []NoChecksumLost
<1>1. KeptInv => NoChecksumLost
  BY DEF KeptInv
<1> QED
  BY <1>1, KeptInvInductive, PTL

\* For any artifacts, a drain step without an error has copied and recorded all of
\* them and nothing else.
THEOREM DrainIsComplete == Spec => []DrainedMeansAll
<1>1. TypeOK /\ SettledInv /\ WholeInv /\ KeptInv => DrainedMeansAll
  <2> SUFFICES ASSUME TypeOK, SettledInv, WholeInv, KeptInv, step \in {"finish", "end"}, ~failed
               PROVE  /\ \A a \in Artifacts : content[FileOf[a]] = a
                      /\ ~torn => entries = {<<FileOf[a], a>> : a \in Artifacts}
    BY DEF DrainedMeansAll
  <2>1. \A a \in Artifacts : pc[a] = "done"
    BY DEF KeptInv
  <2>2. \A a \in Artifacts : content[FileOf[a]] = a
    BY <2>1 DEF SettledInv, Settled
  <2>3. ~torn => \A a \in Artifacts : <<FileOf[a], a>> \in entries
    BY <2>1 DEF KeptInv, NoChecksumLost
  <2>4. ~torn => \A e \in entries : \E a \in Artifacts : e = <<FileOf[a], a>>
    BY DEF SettledInv, WholeInv, EntryOfSettled
  <2> QED
    BY <2>2, <2>3, <2>4
<1> QED
  BY <1>1, TypeCorrect, SettledInvInductive, WholeInvInductive, KeptInvInductive, PTL

=============================================================================

--------------------------- MODULE JobFinderProofs ---------------------------
(***************************************************************************)
(* Theorems about Client.FindInstances and about the jobs it finds, for    *)
(* any deployment, any manifest and any metadata.                          *)
(***************************************************************************)
EXTENDS JobFinder, SequenceTheorems, TLAPS

\* Every step of FindInstances keeps the types.
LEMMA NextTypeOK == TypeOK /\ [Next]_vars => TypeOK'
<1> USE HostsAssumption
<1> SUFFICES ASSUME TypeOK, [Next]_vars
             PROVE  TypeOK'
  OBVIOUS
<1>1. CASE Start \/ NextGroup \/ ReturnInstances \/ ReturnError
  BY <1>1 DEF TypeOK, Start, NextGroup, ReturnInstances, ReturnError
<1>2. ASSUME NEW g \in Groups, InvalidName(g) \/ SetUpSSH(g) \/ SetUpSSHFails(g) \/ CleanUpSSH(g)
      PROVE  TypeOK'
  BY <1>2 DEF TypeOK, InvalidName, SetUpSSH, SetUpSSHFails, CleanUpSSH, GiveUp, HostsOf
<1>3. ASSUME NEW h \in Hosts,
             InvalidHostKey(h) \/ InspectionFails(h) \/ SkipWindows(h) \/ AddInstance(h)
      PROVE  TypeOK'
  BY <1>3 DEF TypeOK, InvalidHostKey, InspectionFails, SkipWindows, AddInstance, GiveUp
<1>4. CASE UNCHANGED vars
  BY <1>4 DEF TypeOK, vars
<1> QED
  BY <1>1, <1>2, <1>3, <1>4 DEF Next

\* The variables keep their types, and a group is done with before the next is begun.
THEOREM TypeCorrect == Spec => []TypeOK
<1> USE HostsAssumption
<1>1. Init => TypeOK
  BY DEF Init, TypeOK
<1>2. TypeOK /\ [Next]_vars => TypeOK'
  BY NextTypeOK
<1> QED
  BY <1>1, <1>2, PTL DEF Spec

-----------------------------------------------------------------------------

Looping == pc \in {"start", "groups", "hosts"}

\* Before a return, users are exactly where slugs says; while cleaning, what is not
\* in slugs any more is cleaned up or was not answered.
UsersInv ==
    /\ Looping => ~err /\ \A h \in Hosts : h \in users <=> GroupOf[h] \in slugs
    /\ pc = "start" => slugs = {}
    /\ pc = "cleaning" => err /\ \A h \in users : h \in unanswered \/ GroupOf[h] \in slugs
    /\ pc = "returned" /\ err /\ ~badKey => users \subseteq unanswered

\* Every step of FindInstances keeps the account of the users.
LEMMA NextUsersInv == TypeOK /\ UsersInv /\ [Next]_vars => UsersInv'
<1> USE HostsAssumption
<1> SUFFICES ASSUME TypeOK, UsersInv, [Next]_vars
             PROVE  UsersInv'
  OBVIOUS
<1>1. CASE Start \/ NextGroup \/ ReturnInstances \/ ReturnError
  BY <1>1 DEF TypeOK, UsersInv, Looping, Start, NextGroup, ReturnInstances, ReturnError
<1>2. ASSUME NEW g \in Groups, InvalidName(g)
      PROVE  UsersInv'
  BY <1>2 DEF TypeOK, UsersInv, Looping, InvalidName, GiveUp
<1>3. ASSUME NEW g \in Groups, SetUpSSH(g)
      PROVE  UsersInv'
  BY <1>3 DEF TypeOK, UsersInv, Looping, SetUpSSH, HostsOf
<1>4. ASSUME NEW g \in Groups, SetUpSSHFails(g)
      PROVE  UsersInv'
  BY <1>4 DEF TypeOK, UsersInv, Looping, SetUpSSHFails, GiveUp, HostsOf
<1>5. ASSUME NEW g \in Groups, CleanUpSSH(g)
      PROVE  UsersInv'
  BY <1>5 DEF TypeOK, UsersInv, Looping, CleanUpSSH, HostsOf
<1>6. ASSUME NEW h \in Hosts,
             InvalidHostKey(h) \/ InspectionFails(h) \/ SkipWindows(h) \/ AddInstance(h)
      PROVE  UsersInv'
  BY <1>6 DEF TypeOK, UsersInv, Looping, InvalidHostKey, InspectionFails, SkipWindows,
              AddInstance, GiveUp
<1>7. CASE UNCHANGED vars
  BY <1>7 DEF UsersInv, Looping, vars
<1> QED
  BY <1>1, <1>2, <1>3, <1>4, <1>5, <1>6, <1>7 DEF Next

LEMMA UsersInvInductive == Spec => []UsersInv
<1> USE HostsAssumption
<1>1. Init => UsersInv
  BY DEF Init, UsersInv, Looping
<1>2. TypeOK /\ UsersInv /\ [Next]_vars => UsersInv'
  BY NextUsersInv
<1> QED
  BY <1>1, <1>2, TypeCorrect, PTL DEF Spec

\* For any deployment, a failure at any point other than a host key's parsing leaves
\* ssh users only where the director did not answer.
THEOREM FailuresCleanUp == Spec => []FailureCleansUp
<1>1. UsersInv => FailureCleansUp
  BY DEF UsersInv, FailureCleansUp
<1> QED
  BY <1>1, UsersInvInductive, PTL

-----------------------------------------------------------------------------

Usable(g) == HostsOf(g) \ Windows
FoundOf(g) == instances \cap HostsOf(g)

\* The groups in slugs are found but for the hosts still to visit, and those are
\* all of one group; what is not in slugs is still to come.
FoundInv ==
    /\ pc = "start" => instances = {} /\ slugs = {}
    /\ pc \in {"groups", "hosts"} =>
        /\ \A g \in Groups : g \in slugs <=> g \notin todo
        /\ \A h \in instances : h \notin Windows /\ GroupOf[h] \in slugs
        /\ \A h \in hosts : GroupOf[h] \in slugs
        /\ \A h, k \in hosts : GroupOf[h] = GroupOf[k]
        /\ \A g \in slugs :
               IF g \in Scripted \/ Usable(g) = {} THEN FoundOf(g) = Usable(g) \ hosts
               ELSE \/ FoundOf(g) = {} /\ Usable(g) \subseteq hosts
                    \/ hosts \cap HostsOf(g) = {} /\ \E h \in Usable(g) : FoundOf(g) = {h}
    /\ pc = "returned" /\ ~err => EveryGroupFound
    /\ pc = "returned" /\ ~err => \A h \in Hosts : h \in users
    /\ pc = "returned" /\ ~err => instances \cap Windows = {}

\* Every step of FindInstances keeps the account of the hosts.
LEMMA NextFoundInv == TypeOK /\ UsersInv /\ FoundInv /\ [Next]_vars => FoundInv'
<1> USE HostsAssumption
<1> SUFFICES ASSUME TypeOK, UsersInv, FoundInv, [Next]_vars
             PROVE  FoundInv'
  OBVIOUS
<1>1. CASE Start
  BY <1>1 DEF TypeOK, FoundInv, Start
<1>2. CASE NextGroup
  BY <1>2 DEF TypeOK, FoundInv, NextGroup, Usable, FoundOf, HostsOf
<1>3. CASE ReturnInstances
  <2>1. slugs = Groups /\ hosts = {}
    BY <1>3 DEF TypeOK, FoundInv, ReturnInstances
  <2>2. EveryGroupFound'
    BY <1>3, <2>1 DEF FoundInv, ReturnInstances, EveryGroupFound, Usable, FoundOf, HostsOf
  <2>3. \A h \in Hosts : h \in users'
    BY <1>3, <2>1 DEF UsersInv, Looping, ReturnInstances
  <2> QED
    BY <1>3, <2>2, <2>3 DEF FoundInv, ReturnInstances
<1>4. CASE ReturnError
  BY <1>4 DEF UsersInv, FoundInv, ReturnError
<1>5. ASSUME NEW g \in Groups, InvalidName(g) \/ SetUpSSHFails(g)
      PROVE  FoundInv'
  BY <1>5 DEF FoundInv, InvalidName, SetUpSSHFails, GiveUp
<1>6. ASSUME NEW g \in Groups, SetUpSSH(g)
      PROVE  FoundInv'
  <2>1. hosts = {} /\ g \notin slugs
    BY <1>6 DEF TypeOK, FoundInv, SetUpSSH
  <2>2. FoundOf(g) = {}
    BY <1>6, <2>1 DEF TypeOK, FoundInv, SetUpSSH, FoundOf, HostsOf
  <2>3. \A f \in slugs : HostsOf(f) \cap HostsOf(g) = {}
    BY <2>1 DEF HostsOf
  <2>4. \A f \in slugs' :
           IF f \in Scripted \/ Usable(f) = {} THEN FoundOf(f)' = Usable(f) \ hosts'
           ELSE \/ FoundOf(f)' = {} /\ Usable(f) \subseteq hosts'
                \/ hosts' \cap HostsOf(f) = {} /\ \E h \in Usable(f) : FoundOf(f)' = {h}
    <3>1. ASSUME NEW f \in slugs
          PROVE  IF f \in Scripted \/ Usable(f) = {} THEN FoundOf(f)' = Usable(f) \ hosts'
                 ELSE \/ FoundOf(f)' = {} /\ Usable(f) \subseteq hosts'
                      \/ hosts' \cap HostsOf(f) = {} /\ \E h \in Usable(f) : FoundOf(f)' = {h}
      <4>1. FoundOf(f)' = FoundOf(f) /\ hosts' \cap HostsOf(f) = {} /\ Usable(f) \subseteq HostsOf(f)
        BY <1>6, <2>3 DEF SetUpSSH, FoundOf, Usable
      <4>2. Usable(f) \ hosts' = Usable(f) \ hosts
        BY <4>1, <2>1
      <4>3. Usable(f) \subseteq hosts => Usable(f) = {}
        BY <2>1
      <4> QED
        BY <1>6, <4>1, <4>2, <4>3 DEF FoundInv, SetUpSSH
    <3>2. FoundOf(g)' = {} /\ hosts' = HostsOf(g) /\ Usable(g) \subseteq HostsOf(g)
      BY <1>6, <2>2 DEF SetUpSSH, FoundOf, Usable
    <3> QED
      BY <1>6, <3>1, <3>2 DEF SetUpSSH
  <2> QED
    BY <1>6, <2>1, <2>4 DEF TypeOK, FoundInv, SetUpSSH, HostsOf, Usable, FoundOf
<1>7. ASSUME NEW g \in Groups, CleanUpSSH(g)
      PROVE  FoundInv'
  BY <1>7 DEF FoundInv, CleanUpSSH
<1>8. ASSUME NEW h \in Hosts, InvalidHostKey(h) \/ InspectionFails(h)
      PROVE  FoundInv'
  BY <1>8 DEF FoundInv, InvalidHostKey, InspectionFails, GiveUp
<1>9. ASSUME NEW h \in Hosts, SkipWindows(h)
      PROVE  FoundInv'
  BY <1>9 DEF TypeOK, FoundInv, SkipWindows, Usable, FoundOf, HostsOf
<1>10. ASSUME NEW h \in Hosts, AddInstance(h)
       PROVE  FoundInv'
  <2>1. \A f \in slugs : f # GroupOf[h] =>
           h \notin HostsOf(f) /\ hosts \cap HostsOf(f) = {} /\ FoundOf(f)' = FoundOf(f)
    BY <1>10 DEF TypeOK, FoundInv, AddInstance, FoundOf, HostsOf
  <2>2. h \in Usable(GroupOf[h])
    BY <1>10 DEF AddInstance, Usable, HostsOf
  <2>3. hosts' \subseteq hosts
    BY <1>10 DEF AddInstance
  <2>4. \A f \in slugs' :
           IF f \in Scripted \/ Usable(f) = {} THEN FoundOf(f)' = Usable(f) \ hosts'
           ELSE \/ FoundOf(f)' = {} /\ Usable(f) \subseteq hosts'
                \/ hosts' \cap HostsOf(f) = {} /\ \E k \in Usable(f) : FoundOf(f)' = {k}
    <3> SUFFICES ASSUME NEW f \in slugs
                 PROVE  IF f \in Scripted \/ Usable(f) = {} THEN FoundOf(f)' = Usable(f) \ hosts'
                        ELSE \/ FoundOf(f)' = {} /\ Usable(f) \subseteq hosts'
                             \/ hosts' \cap HostsOf(f) = {} /\ \E k \in Usable(f) : FoundOf(f)' = {k}
      BY <1>10 DEF AddInstance
    <3>1. CASE f # GroupOf[h]
      BY <3>1, <2>1, <2>3, <1>10 DEF FoundInv, AddInstance, Usable
    <3>2. CASE f = GroupOf[h] /\ f \in Scripted
      <4>1. hosts' = hosts \ {h} /\ instances' = instances \cup {h}
        BY <3>2, <1>10 DEF AddInstance
      <4>2. FoundOf(f) = Usable(f) \ hosts
        BY <3>2, <1>10 DEF FoundInv, AddInstance
      <4> QED
        BY <3>2, <4>1, <4>2, <2>2, <1>10 DEF FoundOf, Usable, AddInstance
    <3>3. CASE f = GroupOf[h] /\ f \notin Scripted
      <4>1. hosts' = {} /\ instances' = instances \cup {h}
        BY <3>3, <1>10 DEF AddInstance
      <4>2. FoundOf(f) = {}
        BY <3>3, <2>2, <1>10 DEF FoundInv, AddInstance, Usable
      <4>3. FoundOf(f)' = {h}
        BY <3>3, <4>1, <4>2, <2>2 DEF FoundOf, Usable
      <4> QED
        BY <3>3, <4>1, <4>3, <2>2
    <3> QED
      BY <3>1, <3>2, <3>3
  <2>5. GroupOf[h] \in slugs /\ h \notin Windows
    BY <1>10 DEF FoundInv, AddInstance
  <2>6. pc' = "hosts" /\ slugs' = slugs /\ todo' = todo /\ instances' = instances \cup {h}
    BY <1>10 DEF AddInstance
  <2> QED
    BY <2>3, <2>4, <2>5, <2>6, <1>10 DEF FoundInv, AddInstance, Usable, HostsOf, FoundOf
<1>11. CASE UNCHANGED vars
  BY <1>11 DEF FoundInv, EveryGroupFound, vars, Usable, FoundOf, HostsOf
<1> QED
  BY <1>1, <1>2, <1>3, <1>4, <1>5, <1>6, <1>7, <1>8, <1>9, <1>10, <1>11 DEF Next

LEMMA FoundInvInductive == Spec => []FoundInv
<1> USE HostsAssumption
<1>1. Init => FoundInv
  BY DEF Init, FoundInv
<1>2. TypeOK /\ UsersInv /\ FoundInv /\ [Next]_vars => FoundInv'
  BY NextFoundInv
<1> QED
  BY <1>1, <1>2, TypeCorrect, UsersInvInductive, PTL DEF Spec

\* For any deployment, a find that succeeds has found all hosts with scripts, one of
\* each group without, and no Windows host.
THEOREM GroupsAreFound == Spec => []EveryGroupFound
<1>1. FoundInv => EveryGroupFound
  BY DEF FoundInv, EveryGroupFound
<1> QED
  BY <1>1, FoundInvInductive, PTL

\* The hosts found are those with users that need an owner.
LEMMA OwnersFound == TypeOK /\ FoundInv => UsersHaveOwners
<1> USE HostsAssumption
<1> SUFFICES ASSUME TypeOK, FoundInv, pc = "returned", ~err
             PROVE  /\ instances \subseteq users
                    /\ \A h \in users \ instances : h \in Windows \/ GroupOf[h] \notin Scripted
  BY DEF UsersHaveOwners
<1>1. instances \subseteq users
  BY DEF TypeOK, FoundInv
<1>2. ASSUME NEW h \in users \ instances, h \notin Windows, GroupOf[h] \in Scripted
      PROVE  FALSE
  BY <1>2 DEF TypeOK, FoundInv, EveryGroupFound, HostsOf
<1> QED
  BY <1>1, <1>2

\* For any deployment, the users that a successful find leaves to nobody are those on
\* Windows hosts and on hosts of groups without scripts.
THEOREM UsersAreOwned == Spec => []UsersHaveOwners
<1>1. TypeOK /\ FoundInv => UsersHaveOwners
  BY OwnersFound
<1> QED
  BY <1>1, TypeCorrect, FoundInvInductive, PTL

-----------------------------------------------------------------------------
(* The two searches for jobs *)

\* The manifest and the metadata are some that a deployment may have, one VM of a group
\* is its bootstrap node, and a search that succeeded has no host left to visit.
InputInv ==
    /\ \E v2 \in BOOLEAN, listed \in SUBSET DOMAIN ReleaseOf, bora \in SUBSET DOMAIN ReleaseOf :
          manifest = Manifest(v2, listed, bora)
    /\ \E m \in Printable :
          printed = [p \in DOMAIN ReleaseOf |->
                        [restoreName |-> m.restoreName, backupBefore |-> m.backupBefore,
                         restoreBefore |-> m.restoreBefore, skip |-> p \in Disabled]]
    /\ bootstrap \in BootstrapNodes
    /\ pc = "returned" /\ ~err => hosts = {}

\* The jobs of a host are those its scripts, its metadata and the manifest make.
JobsInv ==
    /\ jobs = [h \in Hosts |-> jobs[h]]
    /\ pc = "start" => \A h \in Hosts : jobs[h] = {}
    /\ pc = "director" =>
          \E d \in Hosts : /\ MetadataFound(GroupOf[d])
                           /\ jobs[d] = BuildJobs(GroupOf[d], FALSE, TRUE)
                           /\ \A h \in Hosts \ {d} : jobs[h] = {}
    /\ pc # "director" =>
          /\ \A h \in Hosts : jobs[h] # {} =>
                /\ MetadataFound(GroupOf[h])
                /\ jobs[h] = BuildJobs(GroupOf[h], h \in bootstrap, FALSE)
          /\ \A h \in instances : jobs[h] = BuildJobs(GroupOf[h], h \in bootstrap, FALSE)

\* The record of the artifact of job j on host h, as a restore looks for it.
HasRecord(h, j) ==
    \E r \in recorded :
        IF j.backupOneRestoreAll THEN r.custom /\ r.name = backupOneRestoreAllArtifactName(j)
        ELSE r.custom = FALSE /\ r.name = j.name /\ r.index = IndexOf[h] /\ r.group = GroupOf[h]

\* The backup that was made recorded the artifacts of the usable hosts of all groups with
\* scripts, whichever of them were bootstrap nodes, and of no other host.
RecordedInv ==
    /\ pc \in {"start", "director"} => recorded = {}
    /\ \A r \in recorded : ~r.custom =>
          \E h \in Hosts \ Windows :
              GroupOf[h] \in Scripted /\ r.index = IndexOf[h] /\ r.group = GroupOf[h]
    /\ recorded # {} =>
          \A h \in Hosts \ Windows : GroupOf[h] \in Scripted =>
              \A onBootstrap \in BOOLEAN :
                  \A j \in BuildJobs(GroupOf[h], onBootstrap, FALSE) :
                      HasBackup(j) => HasRecord(h, j)

SearchInv ==
    /\ pc # "director" => TypeOK /\ UsersInv /\ FoundInv
    /\ InputInv /\ JobsInv /\ RecordedInv

\* A job found on a host of a deployment, and one found on a director.
LEMMA DeployedJobIs ==
    ASSUME NEW g, NEW c, NEW j \in BuildJobs(g, c, FALSE)
    PROVE  /\ j.name \in JobsWithScripts(g) /\ j.metadata = JobMetadata(g, j.name, FALSE)
           /\ j.release = FindReleaseName(g, j.name)
  <1>1. PICK n \in JobsWithScripts(g) :
           j = NewJob(n, NewBackupAndRestoreScripts(FilesOn[g]), JobMetadata(g, n, FALSE),
                      [release |-> FindReleaseName(g, n),
                       backupOneRestoreAll |-> IsJobBackupOneRestoreAll(g, n)], c)
    BY DEF BuildJobs
  <1>2. j.name = n /\ j.metadata = JobMetadata(g, n, FALSE) /\ j.release = FindReleaseName(g, n)
    BY <1>1 DEF NewJob
  <1> QED
    BY <1>2

LEMMA DirectorJobIs ==
    ASSUME NEW g, NEW c, NEW j \in BuildJobs(g, c, TRUE)
    PROVE  /\ j.name \in JobsWithScripts(g) /\ j.metadata = JobMetadata(g, j.name, TRUE)
           /\ j.release = NoName
  <1>1. PICK n \in JobsWithScripts(g) :
           j = NewJob(n, NewBackupAndRestoreScripts(FilesOn[g]), JobMetadata(g, n, TRUE),
                      NewNoopManifestQuerier, c)
    BY DEF BuildJobs
  <1>2. j.name = n /\ j.metadata = JobMetadata(g, n, TRUE) /\ j.release = NoName
    BY <1>1 DEF NewJob, NewNoopManifestQuerier
  <1> QED
    BY <1>2

\* k is what j is on another host, where onBootstrapNode is c.
SameJob(k, j, c) ==
    /\ k.name = j.name /\ k.release = j.release /\ k.metadata = j.metadata
    /\ k.scripts = j.scripts /\ k.backupOneRestoreAll = j.backupOneRestoreAll
    /\ k.onBootstrapNode = c

\* The same job is found on the other hosts of its group, but for the bootstrap node.
LEMMA JobElsewhere ==
    ASSUME NEW g, NEW b, NEW c, NEW j \in BuildJobs(g, b, FALSE)
    PROVE  \E k \in BuildJobs(g, c, FALSE) : SameJob(k, j, c)
  <1>1. PICK n \in JobsWithScripts(g) :
           /\ ~JobMetadata(g, n, FALSE).skip
           /\ j = NewJob(n, NewBackupAndRestoreScripts(FilesOn[g]), JobMetadata(g, n, FALSE),
                         [release |-> FindReleaseName(g, n),
                          backupOneRestoreAll |-> IsJobBackupOneRestoreAll(g, n)], b)
    BY DEF BuildJobs
  <1> DEFINE k == NewJob(n, NewBackupAndRestoreScripts(FilesOn[g]), JobMetadata(g, n, FALSE),
                         [release |-> FindReleaseName(g, n),
                          backupOneRestoreAll |-> IsJobBackupOneRestoreAll(g, n)], c)
  <1>2. k \in BuildJobs(g, c, FALSE)
    BY <1>1 DEF BuildJobs
  <1>3. SameJob(k, j, c)
    BY <1>1 DEF NewJob, SameJob
  <1> QED
    BY <1>2, <1>3

\* Only the groups with scripts have jobs.
LEMMA JobsAreScripted ==
    ASSUME InputInv, NEW g \in Groups, NEW b, NEW j \in BuildJobs(g, b, FALSE)
    PROVE  g \in Scripted
  <1>1. PICK n \in JobsWithScripts(g) : ~JobMetadata(g, n, FALSE).skip
    BY DEF BuildJobs
  <1>2. <<g, n>> \in DOMAIN ReleaseOf
    BY ScriptsAssumption
  <1>3. <<g, n>> \notin Disabled
    <2> SUFFICES ASSUME <<g, n>> \in Disabled PROVE FALSE
      OBVIOUS
    <2>1. [job |-> n, name |-> "metadata"] \in FilesOn[g]
      <3>1. \A p \in Disabled : [job |-> p[2], name |-> "metadata"] \in FilesOn[p[1]]
        BY ScriptsAssumption
      <3>2. PICK p \in Disabled : p = <<g, n>>
        OBVIOUS
      <3>3. p[1] = g /\ p[2] = n
        BY <3>2
      <3> QED
        BY <3>1, <3>3
    <2>2. Only(ScriptsOf(FilesOn[g], n), "metadata") # {}
      BY <2>1 DEF Only, ScriptsOf
    <2>3. JobMetadata(g, n, FALSE) = printed[<<g, n>>]
      BY <2>2 DEF JobMetadata, ParseJobMetadata
    <2>4. printed[<<g, n>>].skip
      <3>1. PICK m \in Printable :
               printed = [p \in DOMAIN ReleaseOf |->
                             [restoreName |-> m.restoreName, backupBefore |-> m.backupBefore,
                              restoreBefore |-> m.restoreBefore, skip |-> p \in Disabled]]
        BY DEF InputInv
      <3>2. printed[<<g, n>>] =
               [restoreName |-> m.restoreName, backupBefore |-> m.backupBefore,
                restoreBefore |-> m.restoreBefore, skip |-> <<g, n>> \in Disabled]
        BY <1>2, <3>1, Zenon
      <3>3. (<<g, n>> \in Disabled) = TRUE
        OBVIOUS
      <3>4. printed[<<g, n>>] =
               [restoreName |-> m.restoreName, backupBefore |-> m.backupBefore,
                restoreBefore |-> m.restoreBefore, skip |-> TRUE]
        BY <3>2, <3>3, Zenon
      <3> QED
        BY <3>4
    <2> QED
      BY <1>1, <2>3, <2>4
  <1> QED
    BY <1>1, <1>3, ScriptsAssumption

LEMMA JInitInv == JInit => SearchInv
  <1> SUFFICES ASSUME JInit PROVE SearchInv
    OBVIOUS
  <1>1. TypeOK /\ UsersInv /\ FoundInv
    BY DEF JInit, Init, TypeOK, UsersInv, Looping, FoundInv
  <1>2. InputInv
    <2>1. OneForAll \subseteq DOMAIN ReleaseOf
      BY ScriptsAssumption
    <2>2. \E v2 \in BOOLEAN, listed \in SUBSET DOMAIN ReleaseOf, bora \in SUBSET DOMAIN ReleaseOf :
             manifest = Manifest(v2, listed, bora)
      BY <2>1 DEF JInit
    <2> QED
      BY <2>2 DEF JInit, Init, InputInv
  <1>3. JobsInv
    BY DEF JInit, Init, JobsInv
  <1>4. RecordedInv
    BY DEF JInit, RecordedInv
  <1> QED
    BY <1>1, <1>2, <1>3, <1>4 DEF SearchInv

\* The search of a director is one step.
LEMMA NotADirector == Elsewhere => pc # "director"
  BY DEF Elsewhere, Start, NextGroup, ReturnInstances, ReturnError, InvalidName, SetUpSSH,
         SetUpSSHFails, CleanUpSSH, InvalidHostKey, InspectionFails, SkipWindows

\* What the steps that find no job leave alone.
LEMMA ElsewhereKeeps ==
    ASSUME TypeOK, UsersInv, Elsewhere
    PROVE  /\ [Next]_vars /\ pc # "director" /\ pc' \notin {"start", "director"}
           /\ instances' \subseteq instances /\ UNCHANGED jobVars
           /\ pc' = "returned" /\ ~err' => hosts' = {}
  <1>1. [Next]_vars /\ UNCHANGED jobVars
    BY DEF Elsewhere, Next
  <1>2. CASE Start \/ NextGroup \/ ReturnInstances \/ ReturnError
    BY <1>1, <1>2 DEF TypeOK, UsersInv, Start, NextGroup, ReturnInstances, ReturnError
  <1>3. ASSUME NEW g \in Groups, InvalidName(g) \/ SetUpSSH(g) \/ SetUpSSHFails(g) \/ CleanUpSSH(g)
        PROVE  /\ pc # "director" /\ pc' \notin {"start", "director", "returned"}
               /\ instances' \subseteq instances
    BY <1>3 DEF InvalidName, SetUpSSH, SetUpSSHFails, CleanUpSSH, GiveUp
  <1>4. ASSUME NEW h \in Hosts, InvalidHostKey(h) \/ InspectionFails(h) \/ SkipWindows(h)
        PROVE  /\ pc # "director" /\ pc' \notin {"start", "director"}
               /\ instances' \subseteq instances /\ (pc' = "returned" => err')
    BY <1>4 DEF InvalidHostKey, InspectionFails, SkipWindows, GiveUp
  <1>5. (\E g \in Groups : InvalidName(g) \/ SetUpSSH(g) \/ SetUpSSHFails(g) \/ CleanUpSSH(g)) =>
            /\ pc # "director" /\ pc' \notin {"start", "director", "returned"}
            /\ instances' \subseteq instances
    BY <1>3
  <1>6. (\E h \in Hosts : InvalidHostKey(h) \/ InspectionFails(h) \/ SkipWindows(h)) =>
            /\ pc # "director" /\ pc' \notin {"start", "director"}
            /\ instances' \subseteq instances /\ (pc' = "returned" => err')
    BY <1>4
  <1> QED
    BY <1>1, <1>2, <1>5, <1>6 DEF Elsewhere

\* The search starts afresh.
LEMMA SearchStarts ==
    ASSUME TypeOK, InputInv, SearchAgain
    PROVE  TypeOK' /\ UsersInv' /\ FoundInv'
  <1>1. /\ pc' = "groups" /\ todo' = Groups /\ instances' = {} /\ slugs' = {} /\ users' = {}
        /\ unanswered' = {} /\ UNCHANGED <<hosts, err, badKey>> /\ ~err /\ hosts = {}
    BY DEF SearchAgain, InputInv
  <1> QED
    BY <1>1, HostsAssumption DEF TypeOK, UsersInv, Looping, FoundInv

\* Every step keeps the invariant of FindInstances, but for a director's.
LEMMA NextFindInv == SearchInv /\ [JNext]_allVars => (pc # "director" => TypeOK /\ UsersInv /\ FoundInv)'
  <1> SUFFICES ASSUME SearchInv, [JNext]_allVars, pc' # "director"
               PROVE  TypeOK' /\ UsersInv' /\ FoundInv'
    OBVIOUS
  <1>1. ASSUME pc # "director", [Next]_vars PROVE TypeOK' /\ UsersInv' /\ FoundInv'
    BY <1>1, NextTypeOK, NextUsersInv, NextFoundInv DEF SearchInv
  <1>2. pc = "director" \/ TypeOK
    BY DEF SearchInv
  <1>3. CASE Elsewhere
    <2>1. pc # "director" /\ TypeOK /\ UsersInv
      BY <1>3, NotADirector DEF SearchInv
    <2> QED
      BY <1>1, <1>3, <2>1, ElsewhereKeeps
  <1>4. CASE SearchAgain
    <2>1. TypeOK /\ InputInv
      BY <1>2, <1>4 DEF SearchAgain, SearchInv
    <2> QED
      BY <1>4, <2>1, SearchStarts
  <1>5. ASSUME NEW h \in Hosts, FindJobs(h) PROVE TypeOK' /\ UsersInv' /\ FoundInv'
    <2>1. pc # "director" /\ [Next]_vars
      BY <1>5 DEF FindJobs, AddInstance, Next
    <2> QED
      BY <1>1, <2>1
  <1>6. ASSUME NEW h \in Hosts, FindDirector(h) PROVE FALSE
    BY <1>6 DEF FindDirector
  <1>7. CASE UNCHANGED allVars
    <2>1. pc # "director" /\ [Next]_vars
      BY <1>7 DEF allVars, vars
    <2> QED
      BY <1>1, <2>1
  <1> QED
    BY <1>3, <1>4, <1>5, <1>6, <1>7 DEF JNext

LEMMA NextInputInv == SearchInv /\ [JNext]_allVars => InputInv'
  <1> SUFFICES ASSUME SearchInv, [JNext]_allVars PROVE InputInv'
    OBVIOUS
  <1>1. ASSUME UNCHANGED <<manifest, printed>>, bootstrap' \in BootstrapNodes,
               pc' = "returned" /\ ~err' => hosts' = {}
        PROVE  InputInv'
    BY <1>1 DEF SearchInv, InputInv
  <1>2. bootstrap \in BootstrapNodes /\ (pc = "returned" /\ ~err => hosts = {})
    BY DEF SearchInv, InputInv
  <1>3. CASE Elsewhere
    <2>1. pc # "director" /\ TypeOK /\ UsersInv
      BY <1>3, NotADirector DEF SearchInv
    <2>2. /\ UNCHANGED <<manifest, printed, bootstrap>>
          /\ pc' = "returned" /\ ~err' => hosts' = {}
      BY <1>3, <2>1, ElsewhereKeeps DEF jobVars
    <2> QED
      BY <1>1, <1>2, <2>2
  <1>4. CASE SearchAgain
    BY <1>1, <1>4 DEF SearchAgain
  <1>5. ASSUME NEW h \in Hosts, FindJobs(h) PROVE InputInv'
    BY <1>1, <1>2, <1>5 DEF FindJobs, AddInstance
  <1>6. ASSUME NEW h \in Hosts, FindDirector(h) PROVE InputInv'
    BY <1>1, <1>2, <1>6 DEF FindDirector
  <1>7. CASE UNCHANGED allVars
    BY <1>1, <1>2, <1>7 DEF allVars, vars, jobVars
  <1> QED
    BY <1>3, <1>4, <1>5, <1>6, <1>7 DEF JNext

LEMMA NextJobsInv == SearchInv /\ [JNext]_allVars => JobsInv'
  <1> SUFFICES ASSUME SearchInv, [JNext]_allVars PROVE JobsInv'
    OBVIOUS
  <1>1. JobsInv
    BY DEF SearchInv
  <1>2. CASE Elsewhere
    <2>1. pc # "director" /\ TypeOK /\ UsersInv
      BY <1>2, NotADirector DEF SearchInv
    <2>2. /\ pc' \notin {"start", "director"} /\ instances' \subseteq instances
          /\ UNCHANGED <<manifest, printed, bootstrap, jobs>>
      BY <1>2, <2>1, ElsewhereKeeps DEF jobVars
    <2>3. \A h \in Hosts : /\ MetadataFound(GroupOf[h])' = MetadataFound(GroupOf[h])
                           /\ BuildJobs(GroupOf[h], h \in bootstrap, FALSE)' =
                                  BuildJobs(GroupOf[h], h \in bootstrap, FALSE)
      BY <2>2 DEF BuildJobs, JobMetadata, MetadataFound, FindReleaseName,
                  IsJobBackupOneRestoreAll, isV2Manifest, FindOp
    <2>4. instances \subseteq Hosts
      BY <2>1 DEF TypeOK
    <2> QED
      BY <1>1, <2>1, <2>2, <2>3, <2>4 DEF JobsInv
  <1>3. CASE SearchAgain
    BY <1>3 DEF SearchAgain, JobsInv
  <1>4. ASSUME NEW h \in Hosts, FindJobs(h) PROVE JobsInv'
    <2>1. /\ pc = "hosts" /\ pc' = "hosts" /\ instances' = instances \cup {h}
          /\ UNCHANGED <<manifest, printed, bootstrap>> /\ MetadataFound(GroupOf[h])
          /\ jobs' = [jobs EXCEPT ![h] = BuildJobs(GroupOf[h], h \in bootstrap, FALSE)]
      BY <1>4 DEF FindJobs, AddInstance
    <2>2. \A k \in Hosts : /\ MetadataFound(GroupOf[k])' = MetadataFound(GroupOf[k])
                           /\ BuildJobs(GroupOf[k], k \in bootstrap, FALSE)' =
                                  BuildJobs(GroupOf[k], k \in bootstrap, FALSE)
      BY <2>1 DEF BuildJobs, JobMetadata, MetadataFound, FindReleaseName,
                  IsJobBackupOneRestoreAll, isV2Manifest, FindOp
    <2>3. instances \subseteq Hosts
      BY <2>1 DEF SearchInv, TypeOK
    <2>4. /\ jobs' = [k \in Hosts |-> jobs'[k]]
          /\ jobs'[h] = BuildJobs(GroupOf[h], h \in bootstrap, FALSE)
          /\ \A k \in Hosts \ {h} : jobs'[k] = jobs[k]
      BY <1>1, <2>1 DEF JobsInv
    <2>5. /\ \A k \in Hosts : jobs[k] # {} =>
                /\ MetadataFound(GroupOf[k])
                /\ jobs[k] = BuildJobs(GroupOf[k], k \in bootstrap, FALSE)
          /\ \A k \in instances : jobs[k] = BuildJobs(GroupOf[k], k \in bootstrap, FALSE)
      <3>1. pc # "director"
        BY <2>1
      <3>2. JobsInv
        BY DEF SearchInv
      <3> QED
        BY <3>1, <3>2, Zenon DEF JobsInv
    <2>6. \A k \in Hosts : jobs'[k] # {} =>
                /\ MetadataFound(GroupOf[k])'
                /\ jobs'[k] = BuildJobs(GroupOf[k], k \in bootstrap, FALSE)'
      BY <2>1, <2>2, <2>4, <2>5
    <2>7. \A k \in instances' : jobs'[k] = BuildJobs(GroupOf[k], k \in bootstrap, FALSE)'
      BY <2>1, <2>2, <2>3, <2>4, <2>5
    <2> QED
      BY <2>1, <2>4, <2>6, <2>7 DEF JobsInv
  <1>5. ASSUME NEW d \in Hosts, FindDirector(d) PROVE JobsInv'
    <2>1. /\ pc = "start" /\ pc' = "director" /\ MetadataFound(GroupOf[d])
          /\ UNCHANGED <<manifest, printed>>
          /\ jobs' = [jobs EXCEPT ![d] = BuildJobs(GroupOf[d], FALSE, TRUE)]
      BY <1>5 DEF FindDirector
    <2>2. /\ MetadataFound(GroupOf[d])' = MetadataFound(GroupOf[d])
          /\ BuildJobs(GroupOf[d], FALSE, TRUE)' = BuildJobs(GroupOf[d], FALSE, TRUE)
      BY <2>1 DEF BuildJobs, JobMetadata, MetadataFound, FindReleaseName,
                  IsJobBackupOneRestoreAll, isV2Manifest, FindOp
    <2>3. /\ jobs' = [k \in Hosts |-> jobs'[k]]
          /\ jobs'[d] = BuildJobs(GroupOf[d], FALSE, TRUE)
          /\ \A k \in Hosts \ {d} : jobs'[k] = {}
      BY <1>1, <2>1 DEF JobsInv
    <2> QED
      BY <2>1, <2>2, <2>3 DEF JobsInv
  <1>6. CASE UNCHANGED allVars
    <2>1. UNCHANGED <<pc, instances, manifest, printed, bootstrap, jobs>>
      BY <1>6 DEF allVars, vars, jobVars
    <2>2. \A h \in Hosts : /\ MetadataFound(GroupOf[h])' = MetadataFound(GroupOf[h])
                           /\ BuildJobs(GroupOf[h], h \in bootstrap, FALSE)' =
                                  BuildJobs(GroupOf[h], h \in bootstrap, FALSE)
                           /\ BuildJobs(GroupOf[h], FALSE, TRUE)' =
                                  BuildJobs(GroupOf[h], FALSE, TRUE)
      BY <2>1 DEF BuildJobs, JobMetadata, MetadataFound, FindReleaseName,
                  IsJobBackupOneRestoreAll, isV2Manifest, FindOp
    <2>3. pc # "director" => instances \subseteq Hosts
      BY DEF SearchInv, TypeOK
    <2> QED
      BY <1>1, <2>1, <2>2, <2>3 DEF JobsInv
  <1> QED
    BY <1>2, <1>3, <1>4, <1>5, <1>6 DEF JNext

\* The record a backup makes of job j on host h.
LEMMA RecordIs ==
    ASSUME NEW j, NEW h
    PROVE  LET a == NewBackupArtifact(j, NewDeployedInstance(h))
           IN  /\ HasNamedBackupArtifact(j) =>
                     RecordOf(a).custom /\ RecordOf(a).name = backupOneRestoreAllArtifactName(j)
               /\ ~HasNamedBackupArtifact(j) =>
                     /\ RecordOf(a).custom = FALSE /\ RecordOf(a).name = j.name
                     /\ RecordOf(a).index = IndexOf[h] /\ RecordOf(a).group = GroupOf[h]
  <1> DEFINE a == NewBackupArtifact(j, NewDeployedInstance(h))
  <1>1. CASE HasNamedBackupArtifact(j)
    <2>1. a.isNamed /\ a.name = backupOneRestoreAllArtifactName(j)
      BY <1>1 DEF NewBackupArtifact, BackupArtifactName
    <2>2. RecordOf(a) = CustomRecord(a)
      BY <2>1 DEF RecordOf
    <2> QED
      BY <1>1, <2>1, <2>2 DEF CustomRecord
  <1>2. CASE ~HasNamedBackupArtifact(j)
    <2>1. ~a.isNamed /\ a.name = j.name /\ a.group = GroupOf[h] /\ a.index = IndexOf[h]
      BY <1>2 DEF NewBackupArtifact, NewDeployedInstance, findInstanceIndexById
    <2>2. RecordOf(a) = InstanceRecord(a)
      BY <2>1 DEF RecordOf
    <2> QED
      BY <1>2, <2>1, <2>2 DEF InstanceRecord
  <1> QED
    BY <1>1, <1>2

\* A bootstrap node of a group with scripts.
LEMMA BootstrapIs ==
    ASSUME NEW b \in BootstrapNodes, NEW g \in Scripted
    PROVE  \E h \in Hosts \ Windows : GroupOf[h] = g /\ h \in b
  BY DEF BootstrapNodes, HostsOf

\* The usable hosts of the groups with scripts are found, and no Windows host.
LEMMA HostsAreFound ==
    ASSUME TypeOK, FoundInv, Found
    PROVE  /\ \A h \in Hosts \ Windows : GroupOf[h] \in Scripted => h \in instances
           /\ instances \subseteq Hosts \ Windows
  <1>1. EveryGroupFound /\ instances \cap Windows = {} /\ instances \subseteq Hosts
    BY DEF FoundInv, Found, TypeOK
  <1>2. \A g \in Scripted : instances \cap HostsOf(g) = HostsOf(g) \ Windows
    BY <1>1, HostsAssumption DEF EveryGroupFound, Found
  <1> QED
    BY <1>1, <1>2 DEF HostsOf

\* The backup records what a restore will look for.
LEMMA BackupRecords ==
    ASSUME SearchInv, SearchAgain
    PROVE  /\ \A r \in recorded' : ~r.custom =>
                 \E h \in Hosts \ Windows :
                     GroupOf[h] \in Scripted /\ r.index = IndexOf[h] /\ r.group = GroupOf[h]
           /\ \A h \in Hosts \ Windows : GroupOf[h] \in Scripted =>
                 \A onBootstrap \in BOOLEAN :
                     \A j \in BuildJobs(GroupOf[h], onBootstrap, FALSE) :
                         HasBackup(j) => HasRecord(h, j)'
  <1>1. /\ Found /\ pc # "director" /\ TypeOK /\ FoundInv /\ InputInv /\ JobsInv
        /\ recorded' = {RecordOf(a) : a \in UNION {ArtifactsToBackup(h) : h \in instances}}
    BY DEF SearchAgain, Found, SearchInv
  <1>2. \A h \in instances : jobs[h] = BuildJobs(GroupOf[h], h \in bootstrap, FALSE)
    BY <1>1 DEF JobsInv
  <1>3. /\ \A h \in Hosts \ Windows : GroupOf[h] \in Scripted => h \in instances
        /\ instances \subseteq Hosts \ Windows
    BY <1>1, HostsAreFound
  <1>4. \A h \in instances : \A j \in jobs[h] :
           HasBackup(j) => RecordOf(NewBackupArtifact(j, NewDeployedInstance(h))) \in recorded'
    BY <1>1 DEF ArtifactsToBackup, NewDeployedInstance
  <1>5. ASSUME NEW r \in recorded', ~r.custom
        PROVE  \E h \in Hosts \ Windows :
                   GroupOf[h] \in Scripted /\ r.index = IndexOf[h] /\ r.group = GroupOf[h]
    <2>1. PICK h \in instances : \E a \in ArtifactsToBackup(h) : r = RecordOf(a)
      BY <1>1
    <2>2. PICK j \in jobs[h] : r = RecordOf(NewBackupArtifact(j, NewDeployedInstance(h)))
      BY <2>1 DEF ArtifactsToBackup, NewDeployedInstance
    <2>3. h \in Hosts \ Windows /\ GroupOf[h] \in Groups
      BY <1>3, HostsAssumption
    <2>4. GroupOf[h] \in Scripted
      BY <1>1, <1>2, <2>2, <2>3, JobsAreScripted
    <2>5. r.index = IndexOf[h] /\ r.group = GroupOf[h]
      BY <1>5, <2>2, RecordIs
    <2> QED
      BY <2>3, <2>4, <2>5
  <1>6. ASSUME NEW h \in Hosts \ Windows, GroupOf[h] \in Scripted, NEW onBootstrap \in BOOLEAN,
               NEW j \in BuildJobs(GroupOf[h], onBootstrap, FALSE), HasBackup(j)
        PROVE  HasRecord(h, j)'
    <2>1. CASE j.backupOneRestoreAll
      <3>1. PICK b \in Hosts \ Windows : GroupOf[b] = GroupOf[h] /\ b \in bootstrap
        BY <1>1, <1>6, BootstrapIs DEF InputInv
      <3>2. b \in instances
        BY <1>3, <1>6, <3>1
      <3>3. PICK k \in BuildJobs(GroupOf[h], TRUE, FALSE) : SameJob(k, j, TRUE)
        BY JobElsewhere, Zenon
      <3>4. k \in jobs[b]
        <4>1. (b \in bootstrap) = TRUE
          BY <3>1
        <4>2. jobs[b] = BuildJobs(GroupOf[h], b \in bootstrap, FALSE)
          BY <1>2, <3>1, <3>2
        <4>3. jobs[b] = BuildJobs(GroupOf[h], TRUE, FALSE)
          BY <4>1, <4>2, Zenon
        <4> QED
          BY <3>3, <4>3
      <3>5. HasBackup(k) /\ HasNamedBackupArtifact(k)
        BY <1>6, <2>1, <3>1, <3>3 DEF SameJob, HasBackup, HasNamedBackupArtifact
      <3>6. backupOneRestoreAllArtifactName(k) = backupOneRestoreAllArtifactName(j)
        BY <3>3 DEF SameJob, backupOneRestoreAllArtifactName
      <3>7. PICK r \in recorded' : r = RecordOf(NewBackupArtifact(k, NewDeployedInstance(b)))
        BY <1>4, <3>2, <3>4, <3>5
      <3>8. r.custom /\ r.name = backupOneRestoreAllArtifactName(j)
        BY <3>5, <3>6, <3>7, RecordIs
      <3> QED
        BY <2>1, <3>8 DEF HasRecord
    <2>2. CASE ~j.backupOneRestoreAll
      <3>1. h \in instances
        BY <1>3, <1>6
      <3>2. PICK k \in jobs[h] :
               /\ k.name = j.name /\ k.scripts = j.scripts
               /\ k.backupOneRestoreAll = j.backupOneRestoreAll
        <4>1. jobs[h] = BuildJobs(GroupOf[h], h \in bootstrap, FALSE)
          BY <1>2, <3>1
        <4>2. PICK c \in BOOLEAN : c = (h \in bootstrap)
          <5>1. (h \in bootstrap) = TRUE \/ (h \in bootstrap) = FALSE
            OBVIOUS
          <5> QED
            BY <5>1, Zenon
        <4>3. jobs[h] = BuildJobs(GroupOf[h], c, FALSE)
          BY <4>1, <4>2, Zenon
        <4>4. PICK k \in BuildJobs(GroupOf[h], c, FALSE) : SameJob(k, j, c)
          BY JobElsewhere, Zenon
        <4> QED
          BY <4>3, <4>4 DEF SameJob
      <3>3. k \in jobs[h] /\ HasBackup(k) /\ ~HasNamedBackupArtifact(k)
        BY <1>2, <1>6, <2>2, <3>1, <3>2 DEF HasBackup, HasNamedBackupArtifact
      <3>4. PICK r \in recorded' : r = RecordOf(NewBackupArtifact(k, NewDeployedInstance(h)))
        BY <1>4, <3>1, <3>3
      <3>5. r.custom = FALSE /\ r.name = j.name /\ r.index = IndexOf[h] /\ r.group = GroupOf[h]
        BY <3>2, <3>3, <3>4, RecordIs
      <3> QED
        BY <2>2, <3>5 DEF HasRecord
    <2> QED
      BY <2>1, <2>2
  <1> QED
    BY <1>5, <1>6

LEMMA NextRecordedInv == SearchInv /\ [JNext]_allVars => RecordedInv'
  <1> SUFFICES ASSUME SearchInv, [JNext]_allVars PROVE RecordedInv'
    OBVIOUS
  <1>1. RecordedInv
    BY DEF SearchInv
  <1>2. ASSUME UNCHANGED <<manifest, printed>>
        PROVE  \A h \in Hosts : \A onBootstrap \in BOOLEAN :
                   BuildJobs(GroupOf[h], onBootstrap, FALSE)' = BuildJobs(GroupOf[h], onBootstrap, FALSE)
    BY <1>2 DEF BuildJobs, JobMetadata, FindReleaseName, IsJobBackupOneRestoreAll, isV2Manifest, FindOp
  <1>3. ASSUME UNCHANGED <<manifest, printed, recorded>>,
               pc' \in {"start", "director"} => pc \in {"start", "director"}
        PROVE  RecordedInv'
    <2>1. \A h, j : HasRecord(h, j)' = HasRecord(h, j)
      BY <1>3 DEF HasRecord
    <2> QED
      BY <1>1, <1>2, <1>3, <2>1 DEF RecordedInv
  <1>4. CASE Elsewhere
    <2>1. pc # "director" /\ TypeOK /\ UsersInv
      BY <1>4, NotADirector DEF SearchInv
    <2>2. pc' \notin {"start", "director"} /\ UNCHANGED <<manifest, printed, recorded>>
      BY <1>4, <2>1, ElsewhereKeeps DEF jobVars
    <2> QED
      BY <1>3, <2>2
  <1>5. CASE SearchAgain
    <2>1. pc' = "groups" /\ UNCHANGED <<manifest, printed>>
      BY <1>5 DEF SearchAgain
    <2> QED
      BY <1>2, <1>5, <2>1, BackupRecords DEF RecordedInv
  <1>6. ASSUME NEW h \in Hosts, FindJobs(h) PROVE RecordedInv'
    BY <1>3, <1>6 DEF FindJobs, AddInstance
  <1>7. ASSUME NEW h \in Hosts, FindDirector(h) PROVE RecordedInv'
    BY <1>3, <1>7 DEF FindDirector
  <1>8. CASE UNCHANGED allVars
    BY <1>3, <1>8 DEF allVars, vars, jobVars
  <1> QED
    BY <1>4, <1>5, <1>6, <1>7, <1>8 DEF JNext

LEMMA SearchInvHolds == JSpec => []SearchInv
  <1>1. SearchInv /\ [JNext]_allVars => SearchInv'
    BY NextFindInv, NextInputInv, NextJobsInv, NextRecordedInv DEF SearchInv
  <1> QED
    BY <1>1, JInitInv, PTL DEF JSpec

\* What the find promises holds of both searches, that of the restore after the
\* deployment was recreated too: a failure leaves no ssh user behind but where the
\* director did not answer, a success leaves each to an instance or on a host passed
\* over, and no host is missed.
THEOREM BothSearchesKeepTheirPromise ==
    JSpec => [](FailureCleansUp /\ UsersHaveOwners /\ EveryGroupFound)
  <1>1. SearchInv => FailureCleansUp /\ UsersHaveOwners /\ EveryGroupFound
    <2>1. CASE pc = "director"
      BY <2>1 DEF FailureCleansUp, UsersHaveOwners, EveryGroupFound
    <2>2. CASE pc # "director"
      BY <2>2, OwnersFound DEF SearchInv, UsersInv, FoundInv, FailureCleansUp, EveryGroupFound
    <2> QED
      BY <2>1, <2>2
  <1> QED
    BY <1>1, SearchInvHolds, PTL

-----------------------------------------------------------------------------
(* What a restore finds *)

\* Every artifact a restore asks for was recorded by the backup, for any deployment,
\* manifest and metadata, and whatever VMs are bootstrap nodes in either search.
THEOREM RestoresFindBackups == JSpec => []RestoreFindsBackup
  <1>1. SearchInv => RestoreFindsBackup
    <2> SUFFICES ASSUME SearchInv, Found, recorded # {}, ~HasMetadataRestoreNames,
                        \A h \in instances : \A j \in jobs[h] : HasRestore(j) => HasBackup(j)
                 PROVE  /\ DeploymentMatches
                        /\ \A h \in instances : \A a \in ArtifactsToRestore(h) : FetchChecksum(a)
      BY DEF RestoreFindsBackup
    <2>1. pc # "director" /\ TypeOK /\ FoundInv /\ InputInv /\ JobsInv /\ RecordedInv
      BY DEF Found, SearchInv
    <2>2. /\ \A h \in Hosts \ Windows : GroupOf[h] \in Scripted => h \in instances
          /\ instances \subseteq Hosts \ Windows
      BY <2>1, HostsAreFound
    <2>3. DeploymentMatches
      <3> SUFFICES ASSUME NEW r \in recorded, ~r.custom PROVE backupInstanceIsPresent(r)
        BY DEF DeploymentMatches
      <3>1. PICK h \in Hosts \ Windows :
               GroupOf[h] \in Scripted /\ r.index = IndexOf[h] /\ r.group = GroupOf[h]
        BY <2>1 DEF RecordedInv
      <3>2. h \in instances
        BY <2>2, <3>1
      <3> QED
        BY <3>1, <3>2 DEF backupInstanceIsPresent, NewDeployedInstance, findInstanceIndexById
    <2>4. ASSUME NEW h \in instances, NEW a \in ArtifactsToRestore(h) PROVE FetchChecksum(a)
      <3>1. PICK j \in jobs[h] : HasRestore(j) /\ a = NewRestoreArtifact(j, NewDeployedInstance(h))
        BY <2>4 DEF ArtifactsToRestore, NewDeployedInstance
      <3>2. HasBackup(j) /\ h \in Hosts \ Windows /\ GroupOf[h] \in Groups
        BY <2>2, <3>1, HostsAssumption
      <3>3. PICK c \in BOOLEAN : j \in BuildJobs(GroupOf[h], c, FALSE)
        <4>1. j \in BuildJobs(GroupOf[h], h \in bootstrap, FALSE)
          BY <2>1 DEF JobsInv
        <4>2. (h \in bootstrap) \in BOOLEAN
          OBVIOUS
        <4> QED
          BY <4>1, <4>2, Zenon
      <3>4. GroupOf[h] \in Scripted
        BY <2>1, <3>2, <3>3, JobsAreScripted
      <3>5. HasRecord(h, j)
        BY <2>1, <3>2, <3>3, <3>4 DEF RecordedInv
      <3>6. j.metadata.restoreName = NoName
        BY <2>2, <3>1 DEF HasMetadataRestoreNames, HasMetadataRestoreName
      <3>7. CASE j.backupOneRestoreAll
        <4>1. a.isNamed /\ a.name = backupOneRestoreAllArtifactName(j)
          BY <3>1, <3>7 DEF NewRestoreArtifact, HasNamedRestoreArtifact, RestoreArtifactName
        <4>2. PICK r \in recorded : r.custom /\ r.name = backupOneRestoreAllArtifactName(j)
          BY <3>5, <3>7 DEF HasRecord
        <4> QED
          BY <4>1, <4>2 DEF FetchChecksum
      <3>8. CASE ~j.backupOneRestoreAll
        <4>1. ~HasNamedRestoreArtifact(j)
          BY <3>6, <3>8 DEF HasNamedRestoreArtifact
        <4>2. a.isNamed = FALSE /\ a.name = j.name /\ a.index = IndexOf[h] /\ a.group = GroupOf[h]
          BY <3>1, <4>1 DEF NewRestoreArtifact, NewDeployedInstance, findInstanceIndexById
        <4>3. PICK r \in recorded :
                 r.custom = FALSE /\ r.name = j.name /\ r.index = IndexOf[h] /\ r.group = GroupOf[h]
          BY <3>5, <3>8 DEF HasRecord
        <4> QED
          BY <4>2, <4>3 DEF FetchChecksum
      <3> QED
        BY <3>7, <3>8
    <2> QED
      BY <2>3, <2>4
  <1> QED
    BY <1>1, SearchInvHolds, PTL

-----------------------------------------------------------------------------
(* What a lock order finds *)

\* The paths of the manifest differ in length or in a word.
LEMMA Paths ==
    ASSUME NEW v2 \in BOOLEAN, NEW g, NEW n
    PROVE  /\ Len(JobPath(v2, g, n)) = 4 /\ JobPath(v2, g, n)[2] = g /\ JobPath(v2, g, n)[4] = n
           /\ JobPath(v2, g, n)[1] = IF v2 THEN "instance_groups" ELSE "jobs"
           /\ Len(ReleasePath(v2, g, n)) = 5
           /\ ReleasePath(v2, g, n)[2] = g /\ ReleasePath(v2, g, n)[4] = n
           /\ ReleasePath(v2, g, n)[3] \in {"jobs", "templates"}
           /\ ReleasePath(v2, g, n)[1] = IF v2 THEN "instance_groups" ELSE "jobs"
           /\ \/ Len(BackupOneRestoreAllPath(v2, g, n)) = 7
              \/ /\ Len(BackupOneRestoreAllPath(v2, g, n)) = 5
                 /\ BackupOneRestoreAllPath(v2, g, n)[3] = "properties"
           /\ ~v2 => BackupOneRestoreAllPath(v2, g, n)[1] = "jobs"
  <1>1. \A a, b, c, d, e : LET q == Append(<<a, b, c, d>>, e)
                           IN  Len(q) = 5 /\ q[1] = a /\ q[2] = b /\ q[3] = c /\ q[4] = d
    OBVIOUS
  <1>2. \A a, b, c, d, e, f, k : Len(<<a, b, c, d>> \o <<e, f, k>>) = 7
    OBVIOUS
  <1>3. CASE v2
    <2>1. JobPath(v2, g, n) = <<"instance_groups", g, "jobs", n>>
      BY <1>3 DEF JobPath
    <2>2. ReleasePath(v2, g, n) = Append(<<"instance_groups", g, "jobs", n>>, "release")
      BY <2>1 DEF ReleasePath
    <2>3. Len(BackupOneRestoreAllPath(v2, g, n)) = 7
      <3>1. BackupOneRestoreAllPath(v2, g, n) = JobPath(v2, g, n)
                \o <<"properties", "bbr", "backup_one_restore_all">>
        BY <1>3 DEF BackupOneRestoreAllPath
      <3>2. BackupOneRestoreAllPath(v2, g, n) = <<"instance_groups", g, "jobs", n>>
                \o <<"properties", "bbr", "backup_one_restore_all">>
        BY <2>1, <3>1, Zenon
      <3> QED
        BY <1>2, <3>2
    <2>4. LET q == ReleasePath(v2, g, n)
          IN  Len(q) = 5 /\ q[1] = "instance_groups" /\ q[2] = g /\ q[3] = "jobs" /\ q[4] = n
      BY <1>1, <2>2
    <2>5. LET q == JobPath(v2, g, n)
          IN  Len(q) = 4 /\ q[1] = "instance_groups" /\ q[2] = g /\ q[4] = n
      BY <2>1
    <2> QED
      BY <1>3, <2>3, <2>4, <2>5
  <1>4. CASE ~v2
    <2>1. JobPath(v2, g, n) = <<"jobs", g, "templates", n>>
      BY <1>4 DEF JobPath
    <2>2. ReleasePath(v2, g, n) = Append(<<"jobs", g, "templates", n>>, "release")
      BY <2>1 DEF ReleasePath
    <2>3. BackupOneRestoreAllPath(v2, g, n) =
             <<"jobs", g, "properties", "bbr", "backup_one_restore_all">>
      BY <1>4 DEF BackupOneRestoreAllPath
    <2> QED
      BY <1>1, <1>4, <2>1, <2>2, <2>3
  <1> QED
    BY <1>3, <1>4

\* The manifest tells its version, and of each job whether it lists it and with which
\* release.
LEMMA ManifestTells ==
    ASSUME NEW v2 \in BOOLEAN, NEW listed \in SUBSET DOMAIN ReleaseOf,
           NEW bora \in SUBSET DOMAIN ReleaseOf, manifest = Manifest(v2, listed, bora),
           NEW g, NEW n
    PROVE  /\ FindOp(JobPath(isV2Manifest, g, n)) <=> <<g, n>> \in listed
           /\ <<g, n>> \in listed => FindReleaseName(g, n) = ReleaseOf[<<g, n>>]
           /\ <<g, n>> \notin listed => FindReleaseName(g, n) = NoName
  <1> DEFINE paths == {<<IF v2 THEN "instance_groups" ELSE "jobs">>}
                      \cup {JobPath(v2, p[1], p[2]) : p \in listed}
                      \cup {ReleasePath(v2, p[1], p[2]) : p \in listed}
                      \cup {BackupOneRestoreAllPath(v2, p[1], p[2]) : p \in bora}
  <1>1. /\ DOMAIN manifest = paths
        /\ \A path \in paths : manifest[path] =
              IF \E p \in listed : path = ReleasePath(v2, p[1], p[2])
              THEN ReleaseOf[CHOOSE p \in listed : path = ReleasePath(v2, p[1], p[2])]
              ELSE TRUE
    BY DEF Manifest
  <1>2. \A p \in listed : p = <<p[1], p[2]>>
    BY ScriptsAssumption
  <1>3. isV2Manifest <=> v2
    <2>1. CASE v2
      BY <1>1, <2>1 DEF isV2Manifest, FindOp
    <2>2. CASE ~v2
      <3>1. \A path \in paths : path[1] = "jobs"
        BY <2>2, Paths
      <3> QED
        BY <1>1, <2>2, <3>1 DEF isV2Manifest, FindOp
    <2> QED
      BY <2>1, <2>2
  <1>4. /\ JobPath(isV2Manifest, g, n) = JobPath(v2, g, n)
        /\ ReleasePath(isV2Manifest, g, n) = ReleasePath(v2, g, n)
    BY <1>3 DEF JobPath, ReleasePath
  <1>5. JobPath(v2, g, n) \in paths <=> <<g, n>> \in listed
    <2>1. ASSUME JobPath(v2, g, n) \in paths PROVE <<g, n>> \in listed
      <3>1. PICK p \in listed : JobPath(v2, g, n) = JobPath(v2, p[1], p[2])
        <4>1. Len(JobPath(v2, g, n)) = 4
          BY Paths
        <4>2. /\ \A p \in listed : Len(ReleasePath(v2, p[1], p[2])) = 5
              /\ \A p \in bora : Len(BackupOneRestoreAllPath(v2, p[1], p[2])) \in {5, 7}
          BY Paths
        <4>3. Len(<<IF v2 THEN "instance_groups" ELSE "jobs">>) = 1
          OBVIOUS
        <4> QED
          BY <2>1, <4>1, <4>2, <4>3
      <3>2. p[1] = g /\ p[2] = n
        BY <3>1, Paths
      <3> QED
        BY <1>2, <3>2
    <2>2. ASSUME <<g, n>> \in listed PROVE JobPath(v2, g, n) \in paths
      <3>1. PICK p \in listed : p = <<g, n>>
        BY <2>2
      <3> QED
        BY <3>1
    <2> QED
      BY <2>1, <2>2
  <1>6. ASSUME NEW p \in listed, ReleasePath(v2, g, n) = ReleasePath(v2, p[1], p[2])
        PROVE  p = <<g, n>>
    <2>1. p[1] = g /\ p[2] = n
      BY <1>6, Paths
    <2> QED
      BY <1>2, <2>1
  <1>7. ReleasePath(v2, g, n) \in paths => <<g, n>> \in listed
    <2> SUFFICES ASSUME ReleasePath(v2, g, n) \in paths PROVE <<g, n>> \in listed
      OBVIOUS
    <2>1. Len(ReleasePath(v2, g, n)) = 5 /\ ReleasePath(v2, g, n)[3] \in {"jobs", "templates"}
      BY Paths
    <2>2. /\ \A p \in listed : Len(JobPath(v2, p[1], p[2])) = 4
          /\ \A p \in bora : \/ Len(BackupOneRestoreAllPath(v2, p[1], p[2])) = 7
                             \/ BackupOneRestoreAllPath(v2, p[1], p[2])[3] = "properties"
      BY Paths
    <2>3. Len(<<IF v2 THEN "instance_groups" ELSE "jobs">>) = 1
      OBVIOUS
    <2>4. PICK p \in listed : ReleasePath(v2, g, n) = ReleasePath(v2, p[1], p[2])
      BY <2>1, <2>2, <2>3
    <2> QED
      BY <1>6, <2>4
  <1>8. ASSUME <<g, n>> \in listed
        PROVE  ReleasePath(v2, g, n) \in paths /\ manifest[ReleasePath(v2, g, n)] = ReleaseOf[<<g, n>>]
    <2>1. PICK q \in listed : q = <<g, n>> /\ ReleasePath(v2, g, n) = ReleasePath(v2, q[1], q[2])
      BY <1>8
    <2>2. (CHOOSE p \in listed : ReleasePath(v2, g, n) = ReleasePath(v2, p[1], p[2])) = <<g, n>>
      BY <1>6, <2>1
    <2>3. ReleasePath(v2, g, n) \in paths
      BY <2>1
    <2>4. manifest[ReleasePath(v2, g, n)] =
             ReleaseOf[CHOOSE p \in listed : ReleasePath(v2, g, n) = ReleasePath(v2, p[1], p[2])]
      <3> HIDE DEF paths
      <3> QED
        BY <1>1, <2>1, <2>3
    <2> QED
      BY <2>2, <2>3, <2>4
  <1> HIDE DEF paths
  <1> QED
    BY <1>1, <1>4, <1>5, <1>7, <1>8 DEF FindOp, FindReleaseName

\* The metadata of a job found, if it has any, is what its script prints, and parses.
LEMMA MetadataIs ==
    ASSUME InputInv, NEW g \in Groups, MetadataFound(g), NEW n \in JobsWithScripts(g), NEW omit \in BOOLEAN,
           JobMetadata(g, n, omit) # NoMetadata
    PROVE  LET m == printed[<<g, n>>]
           IN  /\ JobMetadata(g, n, omit).backupBefore =
                      IF omit THEN omitReleases(m.backupBefore) ELSE m.backupBefore
               /\ JobMetadata(g, n, omit).restoreBefore =
                      IF omit THEN omitReleases(m.restoreBefore) ELSE m.restoreBefore
               /\ \A l \in m.backupBefore \cup m.restoreBefore :
                      Validate(l) /\ l = [job |-> l.job, release |-> l.release]
  <1> DEFINE m == printed[<<g, n>>]
  <1>1. PICK u \in FilesOn[g] : u.job = n /\ u.name = "metadata"
    BY DEF JobMetadata, Only, ScriptsOf
  <1>2. Only(ScriptsOf(FilesOn[g], n), "metadata") # {}
    BY <1>1 DEF Only, ScriptsOf
  <1>3. ~isMySQLScript(u)
    <2>1. PICK s \in FilesOn[g] : s.job = n /\ isPlatformScript(s)
      BY DEF JobsWithScripts, NewBackupAndRestoreScripts
    <2> QED
      BY <1>1, <2>1 DEF isPlatformScript, isMySQLScript
  <1>4. Parsable(m)
    <2>1. u \in Only(NewBackupAndRestoreScripts(FilesOn[g]), "metadata")
      BY <1>1, <1>3 DEF Only, NewBackupAndRestoreScripts, isPlatformScript, ScriptNames
    <2>2. Parsable(printed[<<g, u.job>>])
      BY <2>1 DEF MetadataFound
    <2> QED
      BY <1>1, <2>2
  <1>5. PICK w \in Printable, d \in BOOLEAN :
           m = [restoreName |-> w.restoreName, backupBefore |-> w.backupBefore,
                restoreBefore |-> w.restoreBefore, skip |-> d]
    <2>1. PICK w \in Printable :
             printed = [p \in DOMAIN ReleaseOf |->
                           [restoreName |-> w.restoreName, backupBefore |-> w.backupBefore,
                            restoreBefore |-> w.restoreBefore, skip |-> p \in Disabled]]
      BY DEF InputInv
    <2>2. <<g, n>> \in DOMAIN ReleaseOf
      BY ScriptsAssumption
    <2>3. m = [restoreName |-> w.restoreName, backupBefore |-> w.backupBefore,
               restoreBefore |-> w.restoreBefore, skip |-> <<g, n>> \in Disabled]
      BY <2>1, <2>2, Zenon
    <2>4. (<<g, n>> \in Disabled) \in BOOLEAN
      OBVIOUS
    <2> QED
      BY <2>3, <2>4, Zenon
  <1>6. m.backupBefore = w.backupBefore /\ m.restoreBefore = w.restoreBefore
    BY <1>5
  <1>7. \A l \in m.backupBefore \cup m.restoreBefore :
           Validate(l) /\ l = [job |-> l.job, release |-> l.release]
    BY <1>4, <1>6, PrintableAssumption DEF Parsable
  <1>8. CASE ~omit
    BY <1>2, <1>7, <1>8 DEF JobMetadata, ParseJobMetadata
  <1>9. CASE omit
    <2>1. JobMetadata(g, n, omit) = ParseJobMetadataOmitReleases(m)
      BY <1>2, <1>9 DEF JobMetadata
    <2>2. /\ ParseJobMetadataOmitReleases(m).backupBefore = omitReleases(m.backupBefore)
          /\ ParseJobMetadataOmitReleases(m).restoreBefore = omitReleases(m.restoreBefore)
      BY <1>5 DEF ParseJobMetadataOmitReleases
    <2> QED
      BY <1>7, <1>9, <2>1, <2>2
  <1> QED
    BY <1>8, <1>9

\* For any deployment or director, any version of the manifest and any metadata, the jobs
\* locked after a job are just those its metadata names, less the addons the manifest does
\* not list: the orders that name those are dropped.
THEOREM LockOrdersDoResolve == JSpec => []LockOrdersResolve
  <1>1. SearchInv => LockOrdersResolve
    <2> SUFFICES ASSUME SearchInv, Found \/ pc = "director", NEW h \in Hosts, NEW k \in Hosts,
                        NEW j \in jobs[h], NEW t \in jobs[k], j.metadata # NoMetadata,
                        NEW orderer \in {"backup", "restore"}, NEW asked,
                        asked = IF orderer = "backup" THEN printed[<<GroupOf[h], j.name>>].backupBefore
                                ELSE printed[<<GroupOf[h], j.name>>].restoreBefore
                 PROVE  IsSpecified(orderer, t, j)
                            <=> IsListed(GroupOf[k], t) /\ \E l \in asked : IsNamed(GroupOf[k], t, l)
      BY DEF LockOrdersResolve
    <2>1. InputInv /\ JobsInv /\ GroupOf[h] \in Groups /\ GroupOf[k] \in Groups
      BY HostsAssumption DEF SearchInv
    <2>2. CASE pc # "director"
      <3>1. /\ MetadataFound(GroupOf[h]) /\ MetadataFound(GroupOf[k])
            /\ \E c : j \in BuildJobs(GroupOf[h], c, FALSE)
            /\ \E c : t \in BuildJobs(GroupOf[k], c, FALSE)
        BY <2>1, <2>2 DEF JobsInv
      <3>2. j.name \in JobsWithScripts(GroupOf[h]) /\ j.metadata = JobMetadata(GroupOf[h], j.name, FALSE)
        BY <3>1, DeployedJobIs
      <3>3. t.release = FindReleaseName(GroupOf[k], t.name)
        BY <3>1, DeployedJobIs
      <3>4. /\ Before(orderer, j) = asked
            /\ \A l \in asked : Validate(l) /\ l = [job |-> l.job, release |-> l.release]
        <4> DEFINE m == printed[<<GroupOf[h], j.name>>]
        <4>1. /\ j.metadata.backupBefore = m.backupBefore
              /\ j.metadata.restoreBefore = m.restoreBefore
              /\ \A l \in m.backupBefore \cup m.restoreBefore :
                    Validate(l) /\ l = [job |-> l.job, release |-> l.release]
          BY <2>1, <3>1, <3>2, MetadataIs
        <4> QED
          BY <4>1 DEF Before, BackupShouldBeLockedBefore, RestoreShouldBeLockedBefore
      <3>5. PICK v2 \in BOOLEAN, listed \in SUBSET DOMAIN ReleaseOf,
                 bora \in SUBSET DOMAIN ReleaseOf : manifest = Manifest(v2, listed, bora)
        BY <2>1 DEF InputInv
      <3> DEFINE s == <<GroupOf[k], t.name>>
      <3>6. /\ FindOp(JobPath(isV2Manifest, GroupOf[k], t.name)) <=> s \in listed
            /\ s \in listed => t.release = ReleaseOf[s]
            /\ s \notin listed => t.release = NoName
        BY <3>3, <3>5, ManifestTells
      <3>7. ASSUME IsSpecified(orderer, t, j)
            PROVE  IsListed(GroupOf[k], t) /\ \E l \in asked : IsNamed(GroupOf[k], t, l)
        <4>1. PICK l \in asked : l = [job |-> t.name, release |-> t.release]
          BY <3>4, <3>7 DEF IsSpecified
        <4>2. l.job = t.name /\ l.release = t.release /\ l.release # NoName
          BY <3>4, <4>1 DEF Validate
        <4> QED
          BY <3>6, <4>2 DEF IsNamed, IsListed
      <3>8. ASSUME IsListed(GroupOf[k], t), NEW l \in asked, IsNamed(GroupOf[k], t, l)
            PROVE  IsSpecified(orderer, t, j)
        <4>1. l.job = t.name /\ l.release = t.release
          BY <2>2, <3>6, <3>8 DEF IsNamed, IsListed
        <4>2. l = [job |-> t.name, release |-> t.release]
          BY <3>4, <4>1
        <4> QED
          BY <3>4, <4>2 DEF IsSpecified
      <3> QED
        BY <3>7, <3>8
    <2>3. CASE pc = "director"
      <3>1. PICK d \in Hosts : /\ MetadataFound(GroupOf[d])
                               /\ jobs[d] = BuildJobs(GroupOf[d], FALSE, TRUE)
                               /\ \A e \in Hosts \ {d} : jobs[e] = {}
        BY <2>1, <2>3 DEF JobsInv
      <3>2. h = d /\ k = d
        BY <3>1
      <3>3. /\ MetadataFound(GroupOf[h])
            /\ j \in BuildJobs(GroupOf[h], FALSE, TRUE)
            /\ t \in BuildJobs(GroupOf[k], FALSE, TRUE)
        BY <3>1, <3>2
      <3>4. j.name \in JobsWithScripts(GroupOf[h]) /\ j.metadata = JobMetadata(GroupOf[h], j.name, TRUE)
        BY <3>3, DirectorJobIs, Zenon
      <3>5. t.release = NoName
        BY <3>3, DirectorJobIs, Zenon
      <3>6. Before(orderer, j) = omitReleases(asked)
        <4> DEFINE m == printed[<<GroupOf[h], j.name>>]
        <4>1. /\ j.metadata.backupBefore = omitReleases(m.backupBefore)
              /\ j.metadata.restoreBefore = omitReleases(m.restoreBefore)
          <5>1. JobMetadata(GroupOf[h], j.name, TRUE) # NoMetadata
            BY <3>4
          <5>2. /\ JobMetadata(GroupOf[h], j.name, TRUE).backupBefore = omitReleases(m.backupBefore)
                /\ JobMetadata(GroupOf[h], j.name, TRUE).restoreBefore = omitReleases(m.restoreBefore)
            BY <2>1, <3>3, <3>4, <5>1, MetadataIs
          <5> QED
            BY <3>4, <5>2
        <4> QED
          BY <4>1 DEF Before, BackupShouldBeLockedBefore, RestoreShouldBeLockedBefore
      <3>7. IsSpecified(orderer, t, j) <=> \E l \in asked : l.job = t.name
        BY <3>5, <3>6 DEF IsSpecified, omitReleases
      <3> QED
        BY <2>3, <3>7 DEF IsNamed, IsListed
    <2> QED
      BY <2>2, <2>3
  <1> QED
    BY <1>1, SearchInvHolds, PTL

-----------------------------------------------------------------------------
(* The files of the artifacts *)

Words == STRING
JobNames == {p[2] : p \in DOMAIN ReleaseOf}
ReleaseNames == {NoName} \cup {ReleaseOf[p] : p \in DOMAIN ReleaseOf}
FileOf(group, index, name) == group \o <<index>> \o name
SharedName(n, r) == n \o r \o <<"backup", "one", "restore", "all">>

\* s is a name joined of a group's, an index and a job's, word by word.
IsJoined(s, g, i, n) ==
    /\ s \in Seq(Words) /\ Len(s) = Len(g) + 1 + Len(n)
    /\ \A x \in 1 .. Len(g) : s[x] = g[x]
    /\ s[Len(g) + 1] = i
    /\ \A y \in 1 .. Len(n) : s[Len(g) + 1 + y] = n[y]

IsNoWordOf(i, g) == \A x \in 1 .. Len(g) : g[x] # i

LEMMA JoinedName ==
    ASSUME NEW g \in Seq(Words), NEW i \in Words, NEW n \in Seq(Words)
    PROVE  IsJoined(FileOf(g, i, n), g, i, n)
  <1> DEFINE f == g \o <<i>>
             s == f \o n
  <1>1. <<i>> \in Seq(Words) /\ Len(<<i>>) = 1 /\ <<i>>[1] = i /\ Len(g) \in Nat /\ Len(n) \in Nat
    OBVIOUS
  <1>2. /\ f \in Seq(Words) /\ Len(f) = Len(g) + 1
        /\ \A x \in 1 .. Len(f) : f[x] = IF x <= Len(g) THEN g[x] ELSE <<i>>[x - Len(g)]
    BY <1>1, ConcatProperties
  <1> HIDE DEF f
  <1>8. f \in Seq(Words)
    BY <1>2
  <1>3. /\ s \in Seq(Words) /\ Len(s) = Len(f) + Len(n)
        /\ \A x \in 1 .. Len(s) : s[x] = IF x <= Len(f) THEN f[x] ELSE n[x - Len(f)]
    BY <1>8, ConcatProperties
  <1> HIDE DEF s
  <1>4. Len(s) = Len(g) + 1 + Len(n)
    BY <1>1, <1>2, <1>3
  <1>5. \A x \in 1 .. Len(g) : s[x] = g[x]
    <2> SUFFICES ASSUME NEW x \in 1 .. Len(g) PROVE s[x] = g[x]
      OBVIOUS
    <2>1. x \in 1 .. Len(f) /\ x \in 1 .. Len(s) /\ x <= Len(g) /\ x <= Len(f)
      BY <1>1, <1>2, <1>4
    <2> QED
      BY <1>2, <1>3, <2>1
  <1>6. s[Len(g) + 1] = i
    <2> DEFINE x == Len(g) + 1
    <2>1. x \in 1 .. Len(f) /\ x \in 1 .. Len(s) /\ ~(x <= Len(g)) /\ x <= Len(f) /\ x - Len(g) = 1
      BY <1>1, <1>2, <1>4
    <2> QED
      BY <1>1, <1>2, <1>3, <2>1
  <1>7. \A y \in 1 .. Len(n) : s[Len(g) + 1 + y] = n[y]
    <2> SUFFICES ASSUME NEW y \in 1 .. Len(n) PROVE s[Len(g) + 1 + y] = n[y]
      OBVIOUS
    <2> DEFINE x == Len(g) + 1 + y
    <2>1. x \in 1 .. Len(s) /\ ~(x <= Len(f)) /\ x - Len(f) = y
      BY <1>1, <1>2, <1>4
    <2> QED
      BY <1>3, <2>1
  <1> QED
    BY <1>3, <1>4, <1>5, <1>6, <1>7 DEF s, f, FileOf, IsJoined

\* The index is a word of the name, at a place of its own.
LEMMA IndexIsInName ==
    ASSUME NEW g \in Seq(Words), NEW i \in Words, NEW n \in Seq(Words)
    PROVE  \E x \in DOMAIN FileOf(g, i, n) : FileOf(g, i, n)[x] = i
  <1>1. PICK s : s = FileOf(g, i, n)
    OBVIOUS
  <1>2. s \in Seq(Words) /\ Len(s) = Len(g) + 1 + Len(n) /\ s[Len(g) + 1] = i
    <2>1. IsJoined(s, g, i, n)
      BY <1>1, JoinedName
    <2> QED
      BY <2>1 DEF IsJoined
  <1>3. Len(g) \in Nat /\ Len(n) \in Nat
    OBVIOUS
  <1>4. Len(g) + 1 \in 1 .. Len(s)
    BY <1>2, <1>3
  <1>5. DOMAIN s = 1 .. Len(s)
    BY <1>2
  <1> QED
    BY <1>1, <1>2, <1>4, <1>5, Zenon

\* The first index in a name tells where the group's name ends.
LEMMA IndexSplitsName ==
    ASSUME NEW g \in Seq(Words), NEW i \in Words, NEW n \in Seq(Words),
           NEW h \in Seq(Words), NEW j \in Words, NEW m \in Seq(Words),
           IsNoWordOf(j, g), IsNoWordOf(i, h),
           FileOf(g, i, n) = FileOf(h, j, m)
    PROVE  g = h /\ i = j /\ n = m
  <1>0. PICK s : s = FileOf(g, i, n)
    OBVIOUS
  <1>1. /\ s \in Seq(Words) /\ Len(s) = Len(g) + 1 + Len(n)
        /\ \A x \in 1 .. Len(g) : s[x] = g[x]
        /\ s[Len(g) + 1] = i
        /\ \A y \in 1 .. Len(n) : s[Len(g) + 1 + y] = n[y]
    <2>1. IsJoined(s, g, i, n)
      BY <1>0, JoinedName
    <2> QED
      BY <2>1 DEF IsJoined
  <1>2. /\ Len(s) = Len(h) + 1 + Len(m)
        /\ \A x \in 1 .. Len(h) : s[x] = h[x]
        /\ s[Len(h) + 1] = j
        /\ \A y \in 1 .. Len(m) : s[Len(h) + 1 + y] = m[y]
    <2>1. IsJoined(s, h, j, m)
      BY <1>0, JoinedName
    <2> QED
      BY <2>1 DEF IsJoined
  <1>3. Len(g) \in Nat /\ Len(h) \in Nat /\ Len(n) \in Nat /\ Len(m) \in Nat
    OBVIOUS
  <1>4. ~(Len(g) < Len(h))
    <2> SUFFICES ASSUME Len(g) < Len(h) PROVE FALSE
      OBVIOUS
    <2>1. Len(g) + 1 \in 1 .. Len(h)
      BY <1>3
    <2> QED
      BY <1>1, <1>2, <2>1 DEF IsNoWordOf
  <1>5. ~(Len(h) < Len(g))
    <2> SUFFICES ASSUME Len(h) < Len(g) PROVE FALSE
      OBVIOUS
    <2>1. Len(h) + 1 \in 1 .. Len(g)
      BY <1>3
    <2> QED
      BY <1>1, <1>2, <2>1 DEF IsNoWordOf
  <1>6. Len(g) = Len(h) /\ Len(n) = Len(m)
    BY <1>1, <1>2, <1>3, <1>4, <1>5
  <1>7. g = h
    <2>1. \A x \in 1 .. Len(g) : g[x] = h[x]
      BY <1>1, <1>2, <1>6
    <2> QED
      BY <1>6, <2>1, SeqEqual
  <1>8. n = m
    <2>1. \A y \in 1 .. Len(n) : n[y] = m[y]
      BY <1>1, <1>2, <1>6
    <2> QED
      BY <1>6, <2>1, SeqEqual
  <1> QED
    BY <1>1, <1>2, <1>6, <1>7, <1>8

\* The words of which the names of files are made.
LEMMA NamesAre ==
    ASSUME NamesAreToldApart
    PROVE  /\ Groups \subseteq Seq(Words) /\ JobNames \subseteq Seq(Words)
           /\ \A h \in Hosts : \A g \in Groups : IsNoWordOf(IndexOf[h], g)
           /\ \A n \in JobNames, r \in ReleaseNames :
                 /\ SharedName(n, r) \notin JobNames
                 /\ \A h \in Hosts : \A i \in DOMAIN SharedName(n, r) : SharedName(n, r)[i] # IndexOf[h]
  <1>1. \A n, r : backupOneRestoreAllArtifactName([name |-> n, release |-> r]) = SharedName(n, r)
    BY DEF backupOneRestoreAllArtifactName, SharedName
  <1>2. Groups \subseteq Seq(Words) /\ JobNames \subseteq Seq(Words)
    BY DEF NamesAreToldApart, JobNames, Words
  <1>3. \A h \in Hosts : \A g \in Groups : IsNoWordOf(IndexOf[h], g)
    <2>1. \A g \in Groups : DOMAIN g = 1 .. Len(g)
      BY <1>2
    <2> QED
      BY <2>1 DEF NamesAreToldApart, IsNoWordOf
  <1>4. ASSUME NEW n \in JobNames, NEW r \in ReleaseNames
        PROVE  /\ SharedName(n, r) \notin JobNames
               /\ \A h \in Hosts : \A i \in DOMAIN SharedName(n, r) : SharedName(n, r)[i] # IndexOf[h]
    BY <1>1, <1>4 DEF NamesAreToldApart, JobNames, ReleaseNames
  <1> QED
    BY <1>2, <1>3, <1>4

\* An artifact to back up on host h: of the instance, with the name of a job, or shared.
LEMMA BackupArtifactIs ==
    ASSUME SearchInv, Found, NEW h \in instances, NEW a \in ArtifactsToBackup(h)
    PROVE  /\ h \in Hosts /\ GroupOf[h] \in Groups
           /\ a.group = GroupOf[h] /\ a.index = IndexOf[h] /\ a.directory = a.name
           /\ a = [isNamed |-> a.isNamed, group |-> a.group, index |-> a.index,
                   directory |-> a.directory, name |-> a.name]
           /\ a.isNamed \in BOOLEAN
           /\ ~a.isNamed => a.name \in JobNames
           /\ a.isNamed => \E n \in JobNames, r \in ReleaseNames : a.name = SharedName(n, r)
  <1>1. pc # "director" /\ TypeOK /\ FoundInv /\ InputInv /\ JobsInv
    BY DEF Found, SearchInv
  <1>2. h \in Hosts /\ GroupOf[h] \in Groups
    BY <1>1, HostsAreFound, HostsAssumption
  <1>3. PICK j \in jobs[h] : a = NewBackupArtifact(j, NewDeployedInstance(h))
    BY DEF ArtifactsToBackup, NewDeployedInstance
  <1>4. j \in BuildJobs(GroupOf[h], h \in bootstrap, FALSE)
    BY <1>1 DEF JobsInv
  <1>5. j.name \in JobsWithScripts(GroupOf[h]) /\ j.release = FindReleaseName(GroupOf[h], j.name)
    BY <1>4, DeployedJobIs
  <1>6. <<GroupOf[h], j.name>> \in DOMAIN ReleaseOf
    BY <1>2, <1>5, ScriptsAssumption
  <1>7. j.name \in JobNames
    <2>1. PICK p \in DOMAIN ReleaseOf : p = <<GroupOf[h], j.name>>
      BY <1>6
    <2>2. p[2] = j.name
      BY <2>1
    <2> QED
      BY <2>2 DEF JobNames
  <1>8. j.release \in ReleaseNames
    <2>1. PICK v2 \in BOOLEAN, listed \in SUBSET DOMAIN ReleaseOf, bora \in SUBSET DOMAIN ReleaseOf :
             manifest = Manifest(v2, listed, bora)
      BY <1>1 DEF InputInv
    <2>2. \/ FindReleaseName(GroupOf[h], j.name) = ReleaseOf[<<GroupOf[h], j.name>>]
          \/ FindReleaseName(GroupOf[h], j.name) = NoName
      BY <2>1, ManifestTells
    <2> QED
      BY <1>5, <1>6, <2>2 DEF ReleaseNames
  <1>9. /\ a.group = GroupOf[h] /\ a.index = IndexOf[h] /\ a.directory = a.name
        /\ a = [isNamed |-> a.isNamed, group |-> a.group, index |-> a.index,
                directory |-> a.directory, name |-> a.name]
        /\ a.isNamed = HasNamedBackupArtifact(j)
        /\ a.name = IF HasNamedBackupArtifact(j) THEN BackupArtifactName(j) ELSE j.name
    BY <1>3 DEF NewBackupArtifact, NewDeployedInstance, findInstanceIndexById, backupArtifactOrJobName
  <1>10. HasNamedBackupArtifact(j) \in BOOLEAN
    BY DEF HasNamedBackupArtifact
  <1>11. HasNamedBackupArtifact(j) => BackupArtifactName(j) = SharedName(j.name, j.release)
    BY DEF BackupArtifactName, backupOneRestoreAllArtifactName, SharedName
  <1>12. ~a.isNamed => a.name \in JobNames
    BY <1>7, <1>9
  <1>13. a.isNamed => a.name = SharedName(j.name, j.release)
    BY <1>9, <1>11
  <1> QED
    BY <1>2, <1>7, <1>8, <1>9, <1>10, <1>12, <1>13

\* If the names can be told apart, no backup overwrites one artifact's file with
\* another's, nor gets the files of two jobs into one directory of an instance, whatever
\* is deployed; but for the artifacts that one VM backs up for all, of a job and release
\* in two groups.
THEOREM FilesAreTheirOwn ==
    ASSUME NamesAreToldApart
    PROVE  JSpec => []ArtifactsHaveTheirOwnFiles
  <1>1. SearchInv => ArtifactsHaveTheirOwnFiles
    <2> SUFFICES ASSUME SearchInv, Found, NEW h \in instances, NEW k \in instances,
                        NEW a \in ArtifactsToBackup(h), NEW b \in ArtifactsToBackup(k)
                 PROVE  /\ fileName(a) = fileName(b) =>
                              a = b \/ (a.isNamed /\ b.isNamed /\ a.name = b.name)
                        /\ h = k /\ a.directory = b.directory => a = b
      BY DEF ArtifactsHaveTheirOwnFiles
    <2> DEFINE Is(c, q) ==
            /\ q \in Hosts /\ GroupOf[q] \in Groups
            /\ c.group = GroupOf[q] /\ c.index = IndexOf[q] /\ c.directory = c.name
            /\ c = [isNamed |-> c.isNamed, group |-> c.group, index |-> c.index,
                    directory |-> c.directory, name |-> c.name]
            /\ c.isNamed \in BOOLEAN
            /\ ~c.isNamed => c.name \in JobNames
            /\ c.isNamed => \E n \in JobNames, r \in ReleaseNames : c.name = SharedName(n, r)
    <2>1. Is(a, h) /\ Is(b, k)
      BY BackupArtifactIs
    <2>2. ASSUME a.isNamed = b.isNamed, a.group = b.group, a.index = b.index, a.name = b.name
          PROVE  a = b
      BY <2>1, <2>2
    <2>3. ASSUME NEW c, NEW q, Is(c, q), ~c.isNamed
          PROVE  /\ fileName(c) = FileOf(c.group, c.index, c.name)
                 /\ c.group \in Seq(Words) /\ c.index \in Words /\ c.name \in Seq(Words)
                 /\ \A p \in Hosts : IsNoWordOf(IndexOf[p], c.group)
      <3>1. IndexOf[q] \in Words
        BY <2>3, ScriptsAssumption DEF Words
      <3> QED
        BY <2>3, <3>1, NamesAre DEF fileName, FileOf
    <2>4. ASSUME NEW c, NEW q, Is(c, q), c.isNamed
          PROVE  /\ fileName(c) = c.name /\ c.name \notin JobNames
                 /\ \A p \in Hosts : \A x \in DOMAIN c.name : c.name[x] # IndexOf[p]
      BY <2>4, NamesAre DEF fileName
    <2>5. ASSUME NEW c, NEW q, Is(c, q), ~c.isNamed, NEW d, NEW p, Is(d, p), d.isNamed
          PROVE  fileName(c) # fileName(d) /\ c.directory # d.directory
      <3>1. c.directory # d.directory
        BY <2>4, <2>5
      <3>2. \E x \in DOMAIN fileName(c) : fileName(c)[x] = IndexOf[q]
        <4>1. /\ c.group \in Seq(Words) /\ c.index \in Words /\ c.name \in Seq(Words)
              /\ fileName(c) = FileOf(c.group, c.index, c.name) /\ c.index = IndexOf[q]
          BY <2>3, <2>5
        <4>2. \E x \in DOMAIN FileOf(c.group, c.index, c.name) :
                 FileOf(c.group, c.index, c.name)[x] = c.index
          BY <4>1, IndexIsInName
        <4> QED
          BY <4>1, <4>2, Zenon
      <3>3. fileName(d) = d.name /\ \A x \in DOMAIN d.name : d.name[x] # IndexOf[q]
        BY <2>4, <2>5
      <3> QED
        BY <3>1, <3>2, <3>3
    <2> HIDE DEF Is
    <2>6. CASE a.isNamed /\ b.isNamed
      <3>1. fileName(a) = a.name /\ fileName(b) = b.name
        BY <2>1, <2>4, <2>6
      <3>2. ASSUME h = k, a.directory = b.directory PROVE a = b
        BY <2>1, <2>2, <2>6, <3>2 DEF Is
      <3> QED
        BY <2>6, <3>1, <3>2
    <2>7. CASE ~a.isNamed /\ ~b.isNamed
      <3>1. ASSUME fileName(a) = fileName(b) PROVE a = b
        <4>1. /\ fileName(a) = FileOf(a.group, a.index, a.name)
              /\ a.group \in Seq(Words) /\ a.index \in Words /\ a.name \in Seq(Words)
              /\ \A p \in Hosts : IsNoWordOf(IndexOf[p], a.group)
          BY <2>1, <2>3, <2>7
        <4>2. /\ fileName(b) = FileOf(b.group, b.index, b.name)
              /\ b.group \in Seq(Words) /\ b.index \in Words /\ b.name \in Seq(Words)
              /\ \A p \in Hosts : IsNoWordOf(IndexOf[p], b.group)
          BY <2>1, <2>3, <2>7
        <4>3. h \in Hosts /\ k \in Hosts /\ a.index = IndexOf[h] /\ b.index = IndexOf[k]
          BY <2>1 DEF Is
        <4>4. IsNoWordOf(b.index, a.group) /\ IsNoWordOf(a.index, b.group)
          BY <4>1, <4>2, <4>3
        <4>5. a.group = b.group /\ a.index = b.index /\ a.name = b.name
          <5>1. FileOf(a.group, a.index, a.name) = FileOf(b.group, b.index, b.name)
            BY <3>1, <4>1, <4>2, Zenon
          <5>2. PICK g, i, n, g2, i2, n2 :
                   /\ g = a.group /\ i = a.index /\ n = a.name
                   /\ g2 = b.group /\ i2 = b.index /\ n2 = b.name
            BY Zenon
          <5>3. /\ g \in Seq(Words) /\ i \in Words /\ n \in Seq(Words)
                /\ g2 \in Seq(Words) /\ i2 \in Words /\ n2 \in Seq(Words)
                /\ IsNoWordOf(i2, g) /\ IsNoWordOf(i, g2)
                /\ FileOf(g, i, n) = FileOf(g2, i2, n2)
            BY <4>1, <4>2, <4>4, <5>1, <5>2, Zenon
          <5>4. g = g2 /\ i = i2 /\ n = n2
            BY <5>3, IndexSplitsName
          <5> QED
            BY <5>2, <5>4, Zenon
        <4> QED
          BY <2>1, <2>2, <2>7, <4>5 DEF Is
      <3>2. ASSUME h = k, a.directory = b.directory PROVE a = b
        BY <2>1, <2>2, <2>7, <3>2 DEF Is
      <3> QED
        BY <3>1, <3>2
    <2>8. CASE a.isNamed # b.isNamed
      BY <2>1, <2>5, <2>8 DEF Is
    <2> QED
      BY <2>1, <2>6, <2>7, <2>8 DEF Is
  <1> QED
    BY <1>1, SearchInvHolds, PTL

=============================================================================

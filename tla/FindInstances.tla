---------------------------- MODULE FindInstances ----------------------------
(***************************************************************************)
(* Client.FindInstances: for each instance group of a deployment an ssh    *)
(* user is made on all its hosts, then the hosts are visited one by one.   *)
(* What the function returns, instances or an error, decides who removes   *)
(* those users afterwards: the Cleanup of each instance, or nobody.        *)
(***************************************************************************)


CONSTANTS
    Groups,     \* the instance groups of the deployment's VMs
    Hosts,      \* the hosts
    GroupOf,    \* host -> its instance group
    Windows,    \* the hosts that run Windows
    Scripted    \* the groups whose jobs have bbr scripts

\* A BOSH instance group has the same jobs on each of its instances.
ASSUME HostsAssumption ==
    /\ GroupOf \in [Hosts -> Groups]
    /\ Windows \subseteq Hosts
    /\ Scripted \subseteq Groups

VARIABLES
    pc,         \* "start", "groups", "hosts", "cleaning" or "returned"
    todo,       \* the groups the outer loop has not come to yet
    hosts,      \* the hosts of the current group still to visit
    slugs,      \* the groups in slugs, or, when cleaning, not yet cleaned up
    instances,  \* the hosts whose instances are in the result
    err,        \* is an error to be returned?
    users,      \* the hosts on which the ssh user exists
    \* history, for the properties
    unanswered, \* hosts of the requests to make or remove users that failed
    badKey      \* was a host key not parsable?

vars == <<pc, todo, hosts, slugs, instances, err, users, unanswered, badKey>>

HostsOf(g) == {h \in Hosts : GroupOf[h] = g}

-----------------------------------------------------------------------------

Init ==
    /\ pc = "start" /\ todo = {} /\ hosts = {} /\ slugs = {} /\ instances = {}
    /\ err = FALSE
    /\ users = {} /\ unanswered = {} /\ badKey = FALSE

\* The deployment, its VMs, the ssh options, the manifest: no user exists yet.
Start ==
    /\ pc = "start"
    /\ \/ pc' = "groups" /\ todo' = Groups /\ UNCHANGED err
       \/ pc' = "returned" /\ err' = TRUE /\ UNCHANGED todo
    /\ UNCHANGED <<hosts, slugs, instances, users, unanswered, badKey>>

\* cleanupAlreadyMadeConnections, then return nil, err.
GiveUp == pc' = "cleaning" /\ err' = TRUE

\* The group's name makes no slug.
InvalidName(g) ==
    /\ pc = "groups"
    /\ g \in todo
    /\ GiveUp
    /\ UNCHANGED <<todo, hosts, slugs, instances, users, unanswered, badKey>>

\* SetUpSSH: the users are made, on all hosts of the group ...
SetUpSSH(g) ==
    /\ pc = "groups"
    /\ g \in todo
    /\ todo' = todo \ {g}
    /\ users' = users \cup HostsOf(g)
    /\ slugs' = slugs \cup {g}
    /\ hosts' = HostsOf(g)
    /\ pc' = "hosts"
    /\ UNCHANGED <<instances, err, unanswered, badKey>>

\* ... or an error is returned, and they may be on some.
SetUpSSHFails(g) ==
    /\ pc = "groups"
    /\ g \in todo
    /\ users' \in {users \cup made : made \in SUBSET HostsOf(g)}
    /\ unanswered' = unanswered \cup HostsOf(g)
    /\ GiveUp
    /\ UNCHANGED <<todo, hosts, slugs, instances, badKey>>

\* ParseAuthorizedKey fails: return at once.
InvalidHostKey(h) ==
    /\ pc = "hosts"
    /\ h \in hosts
    /\ pc' = "returned" /\ err' = TRUE /\ badKey' = TRUE
    /\ instances' = {}
    /\ UNCHANGED <<todo, hosts, slugs, users, unanswered>>

\* A plausible bug: an instance that cannot be inspected is an early return.
InspectionFailsAtOnce(h) ==
    /\ pc = "hosts"
    /\ h \in hosts
    /\ pc' = "returned" /\ err' = TRUE
    /\ instances' = {}
    /\ UNCHANGED <<todo, hosts, slugs, users, unanswered, badKey>>

\* The connection, IsWindows, FindJobs or the instance's index fails.
InspectionFails(h) ==
    /\ pc = "hosts"
    /\ h \in hosts
    /\ GiveUp
    /\ UNCHANGED <<todo, hosts, slugs, instances, users, unanswered, badKey>>

\* A Windows host is passed over.
SkipWindows(h) ==
    /\ pc = "hosts"
    /\ h \in hosts \cap Windows
    /\ hosts' = hosts \ {h}
    /\ UNCHANGED <<pc, todo, slugs, instances, err, users, unanswered, badKey>>

\* A plausible bug: one host of a group stands for all.
AddInstanceOnlyFirst(h) ==
    /\ pc = "hosts"
    /\ h \in hosts \ Windows
    /\ instances' = instances \cup {h}
    /\ hosts' = {}
    /\ UNCHANGED <<pc, todo, slugs, err, users, unanswered, badKey>>

\* The instance is added; without scripts, the rest of its group is not visited.
AddInstance(h) ==
    /\ pc = "hosts"
    /\ h \in hosts \ Windows
    /\ instances' = instances \cup {h}
    /\ hosts' = IF GroupOf[h] \in Scripted THEN hosts \ {h} ELSE {}
    /\ UNCHANGED <<pc, todo, slugs, err, users, unanswered, badKey>>

\* The loop over the hosts is over.
NextGroup ==
    /\ pc = "hosts"
    /\ hosts = {}
    /\ pc' = "groups"
    /\ UNCHANGED <<todo, hosts, slugs, instances, err, users, unanswered, badKey>>

\* return instances, nil.
ReturnInstances ==
    /\ pc = "groups"
    /\ todo = {}
    /\ pc' = "returned"
    /\ UNCHANGED <<todo, hosts, slugs, instances, err, users, unanswered, badKey>>

\* CleanUpSSH of one slug, whose error is dropped.
CleanUpSSH(g) ==
    /\ pc = "cleaning"
    /\ g \in slugs
    /\ slugs' = slugs \ {g}
    /\ \/ users' = users \ HostsOf(g) /\ UNCHANGED unanswered
       \/ /\ users' \in {users \ removed : removed \in SUBSET HostsOf(g)}
          /\ unanswered' = unanswered \cup HostsOf(g)
    /\ UNCHANGED <<pc, todo, hosts, instances, err, badKey>>

ReturnError ==
    /\ pc = "cleaning"
    /\ slugs = {}
    /\ pc' = "returned" /\ instances' = {}
    /\ UNCHANGED <<todo, hosts, slugs, err, users, unanswered, badKey>>

Next ==
    \/ Start \/ NextGroup \/ ReturnInstances \/ ReturnError
    \/ \E g \in Groups : InvalidName(g) \/ SetUpSSH(g) \/ SetUpSSHFails(g) \/ CleanUpSSH(g)
    \/ \E h \in Hosts :
           InvalidHostKey(h) \/ InspectionFails(h) \/ SkipWindows(h) \/ AddInstance(h)

Spec == Init /\ [][Next]_vars

-----------------------------------------------------------------------------

\* Every variable has its type; a group is done with before the next one is begun.
TypeOK ==
    /\ pc \in {"start", "groups", "hosts", "cleaning", "returned"}
    /\ todo \in SUBSET Groups /\ slugs \in SUBSET Groups
    /\ hosts \in SUBSET Hosts /\ instances \in SUBSET Hosts
    /\ users \in SUBSET Hosts /\ unanswered \in SUBSET Hosts
    /\ err \in BOOLEAN /\ badKey \in BOOLEAN
    /\ pc \in {"start", "groups"} => hosts = {}

\* A failure half way, whatever was set up by then, leaves no ssh user behind but
\* where the director did not answer; a host key that cannot be parsed apart.
FailureCleansUp == pc = "returned" /\ err /\ ~badKey => users \subseteq unanswered

\* When it succeeds each user is on a host whose instance will be cleaned up, or on
\* one of those passed over: Windows, or of a group without scripts.
UsersHaveOwners ==
    pc = "returned" /\ ~err =>
        /\ instances \subseteq users
        /\ \A h \in users \ instances : h \in Windows \/ GroupOf[h] \notin Scripted

\* No host is missed: all of a group with scripts are found, and one, that tells so,
\* of a group without; of Windows hosts, none.
EveryGroupFound ==
    pc = "returned" /\ ~err =>
        \A g \in Groups :
            LET found == instances \cap HostsOf(g)
                usable == HostsOf(g) \ Windows
            IN  IF g \in Scripted \/ usable = {} THEN found = usable
                ELSE \E h \in usable : found = {h}

=============================================================================

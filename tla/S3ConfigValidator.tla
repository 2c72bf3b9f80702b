-------------------------- MODULE S3ConfigValidator --------------------------
(***************************************************************************)
(* bbr-s3-config-validator: reads a configuration of buckets, validates it *)
(* and probes every bucket it names, page by page, while others use the    *)
(* buckets.                                                                *)
(*                                                                         *)
(* Of a configured bucket the model has its name and of the other fields   *)
(* whether they are set.  Objects, or their versions, are numbers, listed  *)
(* in their order.                                                         *)
(***************************************************************************)
EXTENDS Integers, FiniteSets, SequencesExt

CONSTANTS
    ConfigFiles,        \* what BBR_S3_BUCKETS_CONFIG may name: files, or Absent if not set
    VersionedConfig,    \* the file at the default path for versioned buckets
    UnversionedConfig,  \* the one for unversioned buckets
    Absent,             \* no such file, no backup bucket, an empty name
    Garbled,            \* a file that is no JSON
    Store,              \* bucket -> [endpoint, versioning, may: credentials -> operations]
    InitialObjects,     \* bucket -> its objects
    NewObjects,         \* the objects that others may put
    PageSize            \* of a listing

ASSUME StoreAssumption ==
    /\ PageSize \in Nat \ {0}
    /\ \A b \in DOMAIN Store : InitialObjects[b] \subseteq Nat
    /\ NewObjects \subseteq Nat

VARIABLES
    params,    \* CommandParams: [readOnly, versioned, config]
    phase,     \* "start", "read", "probing", "exited"
    verdict,   \* "good" or "bad"; "none" before, and if nothing was validated
    todo,      \* the probe runners left: [resource, type, bucket, creds, endpoint, probes]
    page,      \* of the current probe: [after, more, heads]
    report,    \* the answers printed: <<resource, type, probe, yes>>
    objects,   \* bucket -> its objects
    met,       \* history: the buckets of which an object was listed to be got
    disturbed  \* history: has a request failed that is allowed?

vars == <<params, phase, verdict, todo, page, report, objects, met, disturbed>>

-----------------------------------------------------------------------------
(* internal/config *)

\* The fields of bucket b that are empty, or should be.
Faults(b, versioned) ==
    {f \in {"name"} : b.name = Absent}
    \cup {f \in {"region"} : ~b.region}
    \cup {f \in {"credentials"} : IF b.iam THEN b.id \/ b.secret ELSE ~(b.id /\ b.secret)}
    \cup {f \in {"endpoint"} : b.iam /\ b.endpoint}
    \cup {f \in {"backup"} : ~versioned /\ b.backup = Absent}
    \cup {f \in {"backup.name", "backup.region"} :
             /\ ~versioned /\ b.backup # Absent
             /\ IF f = "backup.name" THEN b.backup.name = Absent ELSE ~b.backup.region}

validateConfig(config, versioned) ==
    DOMAIN config # {} /\ \A r \in DOMAIN config : Faults(config[r], versioned) = {}

\* Read and readConfig: is there a configuration to be used?
Read(config, versioned) ==
    config \notin {Absent, Garbled} /\ validateConfig(config, versioned)

-----------------------------------------------------------------------------
(* internal/s3: the client, and the probes made of it *)

\* The credentials: those of an assumed role are had with the static ones, which a
\* bucket with use_iam_profile has not got.
newS3ClientWithAssumedRole(b) ==
    CASE b.role /\ b.id  -> "role"
      [] b.role /\ ~b.id -> "none"
      [] ~b.role /\ b.iam -> "iam"
      [] OTHER -> "static"

\* NewSet: the probes, in order.
NewSet(readOnly, versioned) ==
    (IF versioned THEN <<"IsVersioned", "CanListObjectVersions", "CanGetObjectVersions">>
     ELSE <<"IsUnversioned", "CanListObjects", "CanGetObjects">>)
    \o (IF readOnly THEN <<>> ELSE <<"CanPutObjects">>)

NewProbeRunner(resource, type, name, b, readOnly, versioned) ==
    [resource |-> resource, type |-> type, bucket |-> name,
     creds |-> newS3ClientWithAssumedRole(b), endpoint |-> b.endpoint,
     probes |-> NewSet(readOnly, versioned)]

\* The live bucket and, of unversioned ones, the backup bucket with the live one's
\* endpoint.
NewProbeRunners(resource, b, readOnly, versioned) ==
    <<NewProbeRunner(resource, "live", b.name, b, readOnly, versioned)>> \o
    (IF versioned THEN <<>>
     ELSE <<NewProbeRunner(resource, "backup", b.backup.name, b, readOnly, FALSE)>>)

\* S3's answer to who may do what where.
Allowed(r, op) ==
    Store[r.bucket].endpoint = r.endpoint /\ op \in Store[r.bucket].may[r.creds]

\* A plausible bug: a bucket whose versioning was suspended counts as versioned.
getBucketVersioningEver(b) == Store[b].versioning # "Off"

getBucketVersioning(b) == Store[b].versioning = "Enabled"

IsVersioned(b) == getBucketVersioning(b)
IsUnversioned(b) == ~getBucketVersioning(b)

-----------------------------------------------------------------------------

FirstPage == [after |-> -1, more |-> TRUE, heads |-> {}]

Init ==
    /\ params \in [readOnly : BOOLEAN, versioned : BOOLEAN, config : ConfigFiles]
    /\ phase = "start" /\ verdict = "none"
    /\ todo = <<>> /\ page = FirstPage /\ report = {}
    /\ objects = InitialObjects /\ met = {} /\ disturbed = FALSE

probing == <<todo, page, report, objects, met, disturbed>>

\* --help, and a flag that does not exist: the usage, and exit code 0.
Usage ==
    /\ phase = "start"
    /\ phase' = "exited"
    /\ UNCHANGED <<params, verdict, probing>>

getConfigPath ==
    IF params.config # Absent THEN params.config
    ELSE IF params.versioned THEN VersionedConfig ELSE UnversionedConfig

parseParams ==
    /\ phase = "start"
    /\ phase' = "read"
    /\ params' = [params EXCEPT !.config = getConfigPath]
    /\ UNCHANGED <<verdict, probing>>

BadConfig ==
    /\ phase = "read" /\ ~Read(params.config, params.versioned)
    /\ phase' = "exited" /\ verdict' = "bad"
    /\ UNCHANGED <<params, probing>>

\* isValid: the runners, resource by resource, in the order of a map.
MakeRunners ==
    /\ phase = "read" /\ Read(params.config, params.versioned)
    /\ phase' = "probing"
    /\ \E order \in SetToSeqs(DOMAIN params.config) :
          todo' = FlattenSeq([i \in DOMAIN order |->
                      NewProbeRunners(order[i], params.config[order[i]],
                                      params.readOnly, params.versioned)])
    /\ UNCHANGED <<params, verdict, page, report, objects, met, disturbed>>

-----------------------------------------------------------------------------
(* ProbeRunner.Run *)

Runner == Head(todo)
Probe == Head(Runner.probes)
Now(names) == phase = "probing" /\ todo # <<>> /\ Probe \in names

\* A plausible bug: a runner stops at its first "No".
AnswerNoMore(yes) ==
    /\ report' = report \cup {<<Runner.resource, Runner.type, Probe, yes>>}
    /\ todo' = IF Len(Runner.probes) = 1 \/ ~yes THEN Tail(todo)
               ELSE <<[Runner EXCEPT !.probes = Tail(@)]>> \o Tail(todo)
    /\ page' = FirstPage

\* A "Yes" or a "No" is printed, and the next probe is on.
Answer(yes) ==
    /\ report' = report \cup {<<Runner.resource, Runner.type, Probe, yes>>}
    /\ todo' = IF Len(Runner.probes) = 1 THEN Tail(todo)
               ELSE <<[Runner EXCEPT !.probes = Tail(@)]>> \o Tail(todo)
    /\ page' = FirstPage

\* A request may fail that is allowed.
Refused(op) == disturbed' = (disturbed \/ Allowed(Runner, op))

ProbeVersioning ==
    /\ Now({"IsVersioned", "IsUnversioned"})
    /\ \/ /\ Allowed(Runner, "versioning")
          /\ Answer(IF Probe = "IsVersioned" THEN IsVersioned(Runner.bucket)
                    ELSE IsUnversioned(Runner.bucket))
          /\ UNCHANGED disturbed
       \/ Answer(FALSE) /\ Refused("versioning")
    /\ UNCHANGED <<params, phase, verdict, objects, met>>

ListProbes == {"CanListObjects", "CanListObjectVersions"}
GetProbes == {"CanGetObjects", "CanGetObjectVersions"}

\* paginator.NextPage: the next objects in order; more of them?
NextPage ==
    /\ Now(ListProbes \cup GetProbes) /\ page.more /\ page.heads = {}
    /\ \/ /\ Allowed(Runner, "list")
          /\ LET left   == {k \in objects[Runner.bucket] : k > page.after}
                 listed == {k \in left : Cardinality({j \in left : j < k}) < PageSize}
             IN  /\ page' = [after |-> IF listed = {} THEN page.after ELSE Max(listed),
                             more |-> left # listed,
                             heads |-> IF Probe \in GetProbes THEN listed ELSE {}]
                 /\ met' = IF page'.heads = {} THEN met ELSE met \cup {Runner.bucket}
          /\ UNCHANGED <<todo, report, disturbed>>
       \/ Answer(FALSE) /\ Refused("list") /\ UNCHANGED met
    /\ UNCHANGED <<params, phase, verdict, objects>>

\* HeadObject of one that was listed and may be gone.
HeadObject ==
    /\ Now(GetProbes) /\ page.heads # {}
    /\ \/ /\ Allowed(Runner, "head") /\ Min(page.heads) \in objects[Runner.bucket]
          /\ page' = [page EXCEPT !.heads = @ \ {Min(@)}]
          /\ UNCHANGED <<todo, report, disturbed>>
       \/ Answer(FALSE) /\ Refused("head")
    /\ UNCHANGED <<params, phase, verdict, objects, met>>

LastPage ==
    /\ Now(ListProbes \cup GetProbes) /\ ~page.more /\ page.heads = {}
    /\ Answer(TRUE)
    /\ UNCHANGED <<params, phase, verdict, objects, met, disturbed>>

\* CanPutObjects: the object delete_me, the first in order.
PutObject ==
    /\ Now({"CanPutObjects"})
    /\ \/ /\ Allowed(Runner, "put")
          /\ objects' = [objects EXCEPT ![Runner.bucket] = @ \cup {0}]
          /\ Answer(TRUE) /\ UNCHANGED disturbed
       \/ Answer(FALSE) /\ Refused("put") /\ UNCHANGED objects
    /\ UNCHANGED <<params, phase, verdict, met>>

\* main: every probe of every runner has been made.
Conclude ==
    /\ phase = "probing" /\ todo = <<>>
    /\ phase' = "exited"
    /\ verdict' = IF \A a \in report : a[4] THEN "good" ELSE "bad"
    /\ UNCHANGED <<params, probing>>

\* Others put objects and delete them.
OthersPut(b, k) ==
    /\ phase = "probing"
    /\ k \notin objects[b]
    /\ objects' = [objects EXCEPT ![b] = @ \cup {k}]
    /\ UNCHANGED <<params, phase, verdict, todo, page, report, met, disturbed>>

OthersDelete(b, k) ==
    /\ phase = "probing"
    /\ objects' = [objects EXCEPT ![b] = @ \ {k}]
    /\ UNCHANGED <<params, phase, verdict, todo, page, report, met, disturbed>>

Next ==
    \/ Usage \/ parseParams \/ BadConfig \/ MakeRunners
    \/ ProbeVersioning \/ NextPage \/ HeadObject \/ LastPage \/ PutObject \/ Conclude
    \/ \E b \in DOMAIN Store : \/ \E k \in NewObjects : OthersPut(b, k)
                               \/ \E k \in objects[b] : OthersDelete(b, k)

Spec == Init /\ [][Next]_vars

-----------------------------------------------------------------------------

\* The buckets a configuration names: [resource, type, bucket, config].
Named ==
    {[resource |-> r, type |-> t, config |-> params.config[r],
      bucket |-> IF t = "live" THEN params.config[r].name ELSE params.config[r].backup.name] :
        r \in DOMAIN params.config,
        t \in IF params.versioned THEN {"live"} ELSE {"live", "backup"}}

\* What a backup needs of a bucket; an object must have been met to see that it can
\* be got.
Usable(n) ==
    LET r    == [bucket |-> n.bucket, endpoint |-> n.config.endpoint,
                 creds |-> newS3ClientWithAssumedRole(n.config)]
        needs == {"versioning", "list"} \cup {op \in {"put"} : ~params.readOnly}
                     \cup {op \in {"head"} : n.bucket \in met}
    IN  /\ \A op \in needs : Allowed(r, op)
        /\ params.versioned <=> Store[n.bucket].versioning = "Enabled"

\* "Good config" is said of a configuration that is complete and whose buckets, live
\* and backup, are versioned as they should be and can be used, those that were
\* empty excepted; "Bad config" of another, unless a request failed that is allowed
\* or an object was deleted between its listing and its turn.
VerdictIsTrue ==
    /\ verdict = "good" =>
           Read(params.config, params.versioned) /\ \A n \in Named : Usable(n)
    /\ verdict = "bad" /\ ~disturbed =>
           ~Read(params.config, params.versioned) \/ \E n \in Named : ~Usable(n)

\* Whatever fails, each probe of each bucket is answered once, so that one run shows
\* all there is to repair.
ReportIsComplete ==
    phase = "exited" /\ report # {} =>
        \A n \in Named : \A p \in ToSet(NewSet(params.readOnly, params.versioned)) :
            Cardinality({a \in report : <<a[1], a[2], a[3]>> = <<n.resource, n.type, p>>}) = 1

=============================================================================

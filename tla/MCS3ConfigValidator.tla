------------------------- MODULE MCS3ConfigValidator -------------------------
(***************************************************************************)
(* Three buckets: a versioned one with two objects, an unversioned one     *)
(* with an object that cannot be got with static credentials, and an empty *)
(* one whose versioning was suspended.  Every configuration of one bucket, *)
(* and one of two.                                                         *)
(***************************************************************************)
EXTENDS S3ConfigValidator

All == {"versioning", "list", "head", "put"}

MCStore ==
    [ver |-> [endpoint |-> FALSE, versioning |-> "Enabled",
              may |-> [static |-> All, iam |-> All \ {"put"}, role |-> {"list"}, none |-> {}]],
     unv |-> [endpoint |-> FALSE, versioning |-> "Off",
              may |-> [static |-> All \ {"head"}, iam |-> All, role |-> {}, none |-> {}]],
     sus |-> [endpoint |-> FALSE, versioning |-> "Suspended",
              may |-> [static |-> All, iam |-> All, role |-> All, none |-> {}]]]

MCInitialObjects == [ver |-> {1, 3}, unv |-> {1}, sus |-> {}]

Backups == {Absent, [name |-> "sus", region |-> TRUE], [name |-> Absent, region |-> TRUE],
            [name |-> "sus", region |-> FALSE]}

LiveBuckets ==
    [name : {"ver", "unv", "sus", Absent}, region : BOOLEAN, id : BOOLEAN, secret : BOOLEAN,
     role : BOOLEAN, endpoint : BOOLEAN, iam : BOOLEAN, backup : Backups]

Whole(name) == [name |-> name, region |-> TRUE, id |-> TRUE, secret |-> TRUE, role |-> FALSE,
                endpoint |-> FALSE, iam |-> FALSE, backup |-> Absent]

MCVersionedConfig == [droplets |-> Whole("ver"), packages |-> Whole("sus")]
MCUnversionedConfig == Garbled
MCConfigFiles == {Absent, Garbled, <<>>} \cup [{"droplets"} -> LiveBuckets]

=============================================================================

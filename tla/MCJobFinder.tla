---------------------------- MODULE MCJobFinder ----------------------------
(***************************************************************************)
(* A group of two hosts and a Windows host, with an addon that may be      *)
(* missing from the manifest; a group of one host with the same job and a  *)
(* disabled one; a group of two hosts whose only scripts are MySQL's.      *)
(***************************************************************************)
EXTENDS JobFinder

Db == <<"db">>
Api == <<"db", "api">>
Router == <<"router">>
Pg == <<"pg">>
Agent == <<"pg", "agent">>
Old == <<"old">>

MCGroups == {Db, Api, Router}
MCScripted == {Db, Api}
MCHosts == {"db0", "db1", "db2", "api0", "router0", "router1"}
MCGroupOf == [h \in MCHosts |-> CASE h \in {"db0", "db1", "db2"} -> Db
                                  [] h = "api0" -> Api
                                  [] OTHER -> Router]
MCIndexOf == [h \in MCHosts |-> IF h \in {"db1", "router1"} THEN "1"
                                ELSE IF h = "db2" THEN "2" ELSE "0"]

Files(job, names) == {[job |-> job, name |-> n] : n \in names}
MCFilesOn ==
    [g \in MCGroups |->
        CASE g = Db -> Files(Pg, {"backup", "restore", "metadata", "pre-backup-lock", "README"})
                       \cup Files(Agent, {"backup", "restore"})
          [] g = Api -> Files(Pg, {"backup", "restore", "metadata"})
                        \cup Files(Old, {"metadata", "restore"})
          [] g = Router -> Files(<<"mysql", "restore">>, {"restore"})]

MCReleaseOf == [p \in {<<Db, Pg>>, <<Db, Agent>>, <<Api, Pg>>, <<Api, Old>>} |->
                   IF p = <<Db, Agent>> THEN <<"agent">> ELSE <<"pg", "release">>]
MCDisabled == {<<Api, Old>>}
MCAddons == {<<Db, Agent>>}
MCOneForAll == {<<Db, Pg>>, <<Api, Pg>>}
OnAgent == {[job |-> Agent, release |-> <<"agent">>]}
MCPrintable ==
    {[restoreName |-> <<>>, backupBefore |-> OnAgent, restoreBefore |-> {}],
     [restoreName |-> <<"custom">>, backupBefore |-> {}, restoreBefore |-> OnAgent],
     [restoreName |-> <<>>, backupBefore |-> {},
      restoreBefore |-> {[job |-> Pg, release |-> <<>>]}]}

\* What the theorem about the files of artifacts asks of the names holds of these.
ASSUME NamesAreToldApart

=============================================================================

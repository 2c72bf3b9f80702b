------------------------------ MODULE MCSessions ------------------------------
(***************************************************************************)
(* A download and an upload of an artifact of two files, and a host, or    *)
(* just some of them; du may say less than the stream is, or nothing.      *)
(***************************************************************************)
EXTENDS Sessions

MCKindOf == [t \in Tasks |-> CASE t = "down" -> "download" [] t = "up" -> "upload"
                               [] OTHER -> "inspect"]
MCHostKinds == {[windows |-> TRUE, dir |-> FALSE, scripts |-> {}],
                [windows |-> FALSE, dir |-> TRUE, scripts |-> {"backup"}]}

=============================================================================

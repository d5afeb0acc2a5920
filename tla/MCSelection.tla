----------------------------- MODULE MCSelection ----------------------------
(***************************************************************************)
(* Tags, and what the connectors make of them.  A behaviour either writes  *)
(* the tags of one service, any list of them, or lets registrations with a *)
(* few lists come, change and go.                                          *)
(***************************************************************************)
EXTENDS Selection, TagList

MCInit == Init /\ TagInit

MCNext ==
    \/ tags = <<>> /\ Next /\ UNCHANGED tags
    \/ (\A r \in Reg : state[r] = Absent) /\ TagNext /\ UNCHANGED vars

MCSpec == MCInit /\ [][MCNext]_<<vars, tags>>

Numbers ==
    "0" :> 0 @@ "1" :> 1 @@ "2" :> 2 @@ "8" :> 8 @@ "443" :> 443
    @@ "65535" :> 65535 @@ "65536" :> 65536 @@ "-1" :> -1
Durations == "0" :> 0 @@ "10s" :> 10 @@ "-1" :> -1
SvcNames == "svc:a" :> "a" @@ "svc:" :> ""
Slashed == {"/", "/x"}
Plain == [s \in Setting |-> IF s = "max-connections" THEN 256 ELSE 30]

\* Every key, with the values at the edges of what it accepts.
EveryTag ==
    {Tag("enable", "true"), Tag("foreign", ""), Tag("service", "svc:a"),
     Tag("service", "b"), Tag("service", "svc:"), Tag("scope", "node"),
     Tag("scope", "dc"), Tag("publish-cert", "true"), Tag("publish-cert", ""),
     Tag("path", "/x"), Tag("path", "x"), Tag("max-connections", "0"),
     Tag("max-connections", "-1"), Tag("idle-timeout", "10s"),
     Tag("idle-timeout", "-1"), Tag("https", "443"), Tag("https", "8"),
     Tag("tcp", "8"), Tag("http", "65535"), Tag("tcp", "65536"),
     Tag("tcp", "0")}

\* Two nodes share a datacenter, the third is in another.
Nodes == {"n1", "n2", "n3"}
Datacenters == "n1" :> "dc1" @@ "n2" :> "dc1" @@ "n3" :> "dc2"

\* Service a runs on all three nodes, b beside it on one.
Regs == 1..4
Order == <<"a", "b">>
Services4 == <<"a", "a", "a", "b">>
Homes == <<"n1", "n2", "n3", "n1">>

\* The first of a is without an address, the second on its node's loopback.
Addresses == <<"", "loopback", "host", "host">>

On == Tag("enable", "true")
Lists == {
    <<On, Tag("https", "1")>>,
    <<On, Tag("scope", "node"), Tag("tcp", "1")>>,
    <<On, Tag("scope", "global"), Tag("service", "b"), Tag("tcp", "2"),
      Tag("publish-cert", "true")>>,
    <<Tag("https", "1")>>}
=============================================================================

---------------------------- MODULE McpFixtures ----------------------------
(***************************************************************************)
(* Callers, requests and stored rows for small instances of McpServers.    *)
(***************************************************************************)
EXTENDS Naturals

\* An organisation's administrator, a member of a team, and a system
\* administrator; the member's key may use the global servers.
Identity(o, t, role, k) == [org |-> o, team |-> t, role |-> role, key |-> k]
Administrators == {Identity("o1", "", "org_admin", "k1"), Identity("o1", "t1", "member", "k2"),
                   Identity("o2", "", "system_admin", "k3")}
ServerIds == {"s1", "s2"}
MemberGrants == {"k2"} \X ServerIds

NewServer(url, token) ==
    [alias |-> "a", url |-> url, auth |-> "", header |-> "", token |-> token, version |-> ""]
Creations == {NewServer("u1", "x1")}
Edits == {[alias |-> "b"], [codeMode |-> FALSE]}
FromFile == {NewServer("sse", "")}

StoredRow(id, there, o, t) ==
    [id |-> id, alias |-> IF there THEN "a" ELSE "", org |-> o, team |-> t, active |-> there,
     deleted |-> ~there, source |-> IF there THEN "api" ELSE "", codeMode |-> there,
     url |-> IF there THEN "sse" ELSE "", auth |-> "none", header |-> "", token |-> "",
     secret |-> "", version |-> "auto"]
NoServers == [id \in ServerIds |-> StoredRow(id, FALSE, "", "")]
OneGlobal == [NoServers EXCEPT !["s1"] = StoredRow("s1", TRUE, "", "")]

\* No server, or a global one and one of the same alias of the team.
StoredServers == {NoServers, [OneGlobal EXCEPT !["s2"] = StoredRow("s2", TRUE, "o1", "t1")]}
NothingStored == {NoServers}
=============================================================================

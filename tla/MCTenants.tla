------------------------------ MODULE MCTenants ------------------------------
(***************************************************************************)
(* A small instance of Tenants: two organisations, three users, keys of    *)
(* users, of a team and of a service account; and one of what is kept for  *)
(* each tenant between requests, the sessions of MCP servers. A behaviour  *)
(* is of one of the two, and the other stays as it was.                    *)
(***************************************************************************)
EXTENDS Tenants, SessionRegistry

VARIABLE part  \* "tenants" or "sessions"

MCSlugs == {<<"s1">>, <<"s2">>, <<"s3">>}
MCKeys == [kind : {"user_key"}, owner : {"u1", "u2", "u3"}, org : {"o1", "o2"}, team : {"none"}]
    \cup {[kind |-> "user_key", owner |-> "u3", org |-> "o2", team |-> "t1"],
          [kind |-> "team_key", owner |-> "t1", org |-> "o2", team |-> "t1"],
          [kind |-> "sa_key", owner |-> "a1", org |-> "o2", team |-> "none"]}
MCEmails == {<<"e1">>, <<"e2">>}
(* Reached from Init by the first administrator: a second organisation with *)
(* an administrator, a team administrator and a team.                        *)
Seeded ==
    LET key(u, o) == [kind |-> "user_key", owner |-> u, org |-> o, team |-> None] IN
    /\ orgs = [o \in Orgs |-> IF o = "o3" THEN DB!AbsentOrg
                  ELSE [slug |-> IF o = "o1" THEN <<"s1">> ELSE <<"s2">>, org |-> o, status |-> "live"]]
    /\ teams = [t \in Teams |-> IF t = "t1" THEN [slug |-> <<"s1">>, org |-> "o2", status |-> "live"]
                                         ELSE DB!AbsentTeam]
    /\ users = [u \in Users |-> IF u = "u4" THEN DB!AbsentUser
                  ELSE [email |-> IF u = "u1" THEN <<"e1">> ELSE <<u>>, sys |-> u = "u1", status |-> "live"]]
    /\ members = [x \in Orgs \X Users |->
          CASE x = <<"o1", "u1">> -> "org_admin" [] x = <<"o2", "u2">> -> "org_admin"
            [] x = <<"o2", "u3">> -> "team_admin" [] OTHER -> None]
    /\ teamMembers = [x \in Teams \X Users |-> IF x = <<"t1", "u3">> THEN "member" ELSE None]
    /\ accounts = [a \in Accounts |-> DB!AbsentAccount]
    /\ keys = {key("u1", "o1"), key("u2", "o2"), key("u3", "o2")}
    /\ cache = Fresh
    /\ pending = {} /\ by = Out /\ ops = 0

(* Sessions of three keys of an organisation and of a caller without a key. *)
ClientOf(o, k) == [org |-> o, key |-> k, client |-> TRUE]
Keyless == [org |-> "o3", key |-> "", client |-> FALSE]
MCScopes == {ClientOf("o1", k) : k \in {"k1", "k2", "k3"}} \cup {Keyless}
MCWatched == <<"m1", ClientOf("o1", "k1"), "x">>
MCLookups ==
    ({"m1"} \X MCScopes \X {"x"})
        \cup {<<"m1", ClientOf("o1", "k1"), "y">>, <<"m1", Keyless, "long">>, <<"m2", Keyless, "x">>}

ASSUME RegistryParameters

MCInit ==
    /\ part \in {"tenants", "sessions"}
    /\ Bootstrap("o1", "u1", <<"s1">>, <<"e1">>) \/ (part = "tenants" /\ Seeded)
    /\ RegistryInit
MCNext ==
    \/ part = "tenants" /\ Next /\ UNCHANGED <<part, registryVars>>
    \/ part = "sessions" /\ RegistryNext /\ UNCHANGED <<part, vars>>
MCSpec == MCInit /\ [][MCNext]_<<part, vars, registryVars>>
=============================================================================

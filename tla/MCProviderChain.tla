-------------------------- MODULE MCProviderChain --------------------------
(***************************************************************************)
(* Instances of ProviderChain for TLC: one host in three forms (https and  *)
(* http of one path, and another path), a second host, and every chain of  *)
(* up to three entries that names a provider once.                         *)
(***************************************************************************)
EXTENDS ProviderChain, TLC

CONSTANTS q1, q2, p1, p2

UrlOf(scheme, host, path) == [scheme |-> scheme, host |-> host, port |-> 0, path |-> path]

https == UrlOf("https", "h", <<"npm">>)
below == UrlOf("https", "h", <<"npm", "group">>)
http  == UrlOf("http",  "h", <<"npm">>)
other == UrlOf("https", "o", <<>>)

Question(registry, scope, operation) ==
    [registry |-> registry, scope |-> scope, operation |-> operation]

Hello(entries) == [listed |-> TRUE, registries |-> entries]
NoList         == [listed |-> FALSE, registries |-> {}]

T == STORED_CREDENTIAL_ENTRY
Chains == {<<>>, <<p1>>, <<T>>, <<p1, p2>>, <<p1, T>>, <<T, p1>>, <<p1, p2, T>>, <<p1, T, p2>>}

SetupOf(chain, perRegistry, stored, project, first, second) ==
    [chain |-> chain, perRegistry |-> perRegistry, stored |-> stored, project |-> project,
     exchanged |-> FALSE, hello |-> (p1 :> first @@ p2 :> second)]

AllSetups ==
    {SetupOf(chain, per, stored, FALSE, first, second) :
        chain \in Chains, per \in BOOLEAN, stored \in BOOLEAN,
        first \in {NoList, Hello({https})}, second \in {NoList, Hello({http, other})}}
    \cup {[SetupOf(<<p1>>, per, TRUE, FALSE, NoList, NoList) EXCEPT !.exchanged = TRUE] :
             per \in BOOLEAN}
    \cup {SetupOf(<<>>, FALSE, FALSE, TRUE, NoList, NoList)}

AllQuestions == {Question(r, s, op) : r \in {https, below, http, other}, s \in {"@a", "none"},
                                      op \in {"read", "stage-read", "publish", "login"}}

Command(first, second) == q1 :> first @@ q2 :> second

(* Two reads: the same registry and scope, another scope, another form of  *)
(* the host, a path below, another host.                                   *)
ReadCommands ==
    {Command(Question(r, "@a", "read"), second) :
        r \in {https, http},
        second \in {Question(https, "none", "read")}
                   \cup {Question(x, "@a", "read") : x \in {https, below, http, other}}}

(* The lookup of `stage approve', retried or beside its command's write.   *)
StageCommands ==
    {Command(Question(https, "none", "stage-read"), Question(https, s, op)) :
        s \in {"@a", "none"}, op \in {"stage-read", "publish"}}

LoginCommands == {Command(Question(r, "none", "login"), Question(r, "none", "login")) :
                     r \in {https, http, other}}

AllCommands == ReadCommands \cup StageCommands \cup LoginCommands
=============================================================================

------------------------- MODULE MCCredentialCache -------------------------
(***************************************************************************)
(* Instances of CredentialCache for TLC: reads of two packages of a scope, *)
(* a read by the other URL form of the host, and publishes of both         *)
(* packages, in the commands that can make them together.                  *)
(***************************************************************************)
EXTENDS CredentialCache, TLC

CONSTANTS a1, b1, h1, pa, pb, tokenA, tokenB

Context(registry, package, operation) ==
    [registry |-> registry, scope |-> "@s", package |-> package, operation |-> operation]

AllContexts == {Context(r, p, op) : r \in {"https", "http"}, p \in {"a", "b"},
                                    op \in {"read", "publish"}}

(* a1 reads package a, b1 package b, h1 package a over http; pa and pb     *)
(* publish a and b.                                                        *)
Contextual == a1 :> Context("https", "a", "read")
              @@ b1 :> Context("https", "b", "read") @@ h1 :> Context("http", "a", "read")
              @@ pa :> Context("https", "a", "publish") @@ pb :> Context("https", "b", "publish")

AllCommands == {{a1, b1}, {a1, h1}, {a1, pa}, {pa, pb}}
TwoReads    == {{a1, b1}}

Ok(auth, cache_, granularity, independent) ==
    [auth |-> auth, cache |-> cache_, granularity |-> granularity, independent |-> independent]

(* One token kept for the scope or not kept, and a second one that lapses, *)
(* for a package and every operation.                                      *)
AllAnswers == {Ok(tokenA, "session", "scope", FALSE), Ok(tokenA, "never", "scope", FALSE),
               Ok(tokenB, "expires", "package", TRUE)}
=============================================================================

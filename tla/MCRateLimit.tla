---------------------------- MODULE MCRateLimit -----------------------------
(***************************************************************************)
(* An instance of RateLimit for TLC: more accounts than buckets, trusted   *)
(* proxies and an untrusted one, and headers that name other addresses or  *)
(* cannot be read.                                                         *)
(***************************************************************************)
EXTENDS RateLimit

\* A caller that comes directly or through a trusted proxy, and a proxy nobody
\* trusts, in front of the same host and behind two trusted ones.
MCPaths == {<<"c1">>, <<"c1", "p1">>, <<"c1", "u1", "p1", "p2">>}

MCForgeries ==
    {<< >>} \cup {<<x>> : x \in {"c1", "p1", "junk", "0xff"}}
            \cup {<<"u1", "p1">>, <<"u1", "junk">>}

MCCapacity == [l \in Limiters |-> IF l = "open" THEN 1 ELSE 2]
=============================================================================

------------------------------ MODULE MCEscrow ------------------------------
(***************************************************************************)
(* Instances of Escrow for TLC.  Two sessions of one agent with different  *)
(* providers, so that a claim of one could be mistaken for a claim of the  *)
(* other.  The clock runs past the last expiry plus skew.                  *)
(***************************************************************************)
EXTENDS Escrow

S1 == [agent |-> "a1", provider |-> "p1", id |-> 1]
S2 == [agent |-> "a1", provider |-> "p2", id |-> 1]

Sig(k, s, cumulative, nonce, expires) ==
    [signer |-> k,
     msg |-> [session |-> s, cumulative |-> cumulative, nonce |-> nonce,
              expires |-> expires]]

\* Two claims of the first session (the higher one with the earlier expiry and
\* the lower nonce, which the program does not read), two of the second session
\* (the expiry of one overflows with the skew), and one a provider signed for
\* itself.
MCSignable ==
    {Sig("a1", S1, 1, 2, 3), Sig("a1", S1, 2, 1, 1),
     Sig("a1", S2, 3, 1, 2), Sig("a1", S2, 2, 2, 9),
     Sig("p1", S1, 3, 3, 2)}

\* One session; the last expiry plus the skew overflows an i64.
MCSignableOne ==
    {Sig("a1", S1, 1, 1, 4), Sig("a1", S1, 2, 2, 2), Sig("a1", S1, 3, 3, 1),
     Sig("a1", S1, 4, 4, 9)}
=============================================================================

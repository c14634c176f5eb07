----------------------------- MODULE MCEvidence -----------------------------
(***************************************************************************)
(* An instance of Evidence for TLC: logs of up to MaxEntries + MaxLate     *)
(* entries, odd and even, of a decision that was allowed and one that was  *)
(* not.                                                                    *)
(***************************************************************************)
EXTENDS Evidence

\* Two changes of a log of up to three entries, one of a longer log.
MCMaxEdits ==
    [n \in 0 .. MaxEntries + MaxLate |-> IF n <= 3 THEN 2 ELSE 1]
=============================================================================

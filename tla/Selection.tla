----------------------------- MODULE Selection -----------------------------
(***************************************************************************)
(* The entries of a sequence at a set of indices, in their order: what a   *)
(* reader of a spans file or of result.spans picks out of it.  Written as  *)
(* a recursive function of the prefix length, so that facts about it can   *)
(* be proved (Selection_proofs).                                           *)
(***************************************************************************)
EXTENDS Naturals, Sequences

\* The selections from the prefixes of s: entry n is the one from its first n.
Picks(s, I) ==
  LET pick[n \in 0 .. Len(s)] ==
        IF n = 0 THEN << >>
        ELSE IF n \in I THEN Append(pick[n - 1], s[n])
        ELSE pick[n - 1]
  IN  pick

\* The entries of s whose index is in I, in their order.
Pick(s, I) == Picks(s, I)[Len(s)]
=============================================================================

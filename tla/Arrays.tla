------------------------------- MODULE Arrays -------------------------------
(***************************************************************************)
(* Dynamic arrays of addresses in contract storage, as sequences.          *)
(***************************************************************************)
EXTENDS Integers, Sequences

\* The elements of an array.
Listed(s) == {s[k] : k \in 1..Len(s)}

\* No element is stored twice.
Distinct(s) == \A j, k \in 1..Len(s) : s[j] = s[k] => j = k

\* Nothing of s is lost or moved in t: t is s with elements pushed to its end.
Extends(s, t) == Len(s) <= Len(t) /\ \A k \in 1..Len(s) : t[k] = s[k]

\* e comes before f in s.
Precedes(s, e, f) == \E j, k \in 1..Len(s) : j < k /\ s[j] = e /\ s[k] = f

\* part has those elements of s that are in S, each once and in the order of s,
\* itself without duplicates.
IsPartOf(part, s, S) ==
  /\ Listed(part) = Listed(s) \cap S
  /\ Distinct(part)
  /\ \A j, k \in 1..Len(part) : j < k => Precedes(s, part[j], part[k])
=============================================================================

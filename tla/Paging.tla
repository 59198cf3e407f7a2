------------------------------- MODULE Paging -------------------------------
(***************************************************************************)
(* The page of candidates shown (wetype.cpp 502-563).  The size of a page  *)
(* is a global setting of Fcitx that may change at any time.               *)
(***************************************************************************)
EXTENDS Naturals

CONSTANTS
  MaxPageSize,       \* 10: one digit key per candidate
  FallbackPageSize   \* 5

ASSUME PagingAssumption ==
  /\ MaxPageSize \in Nat \ {0}
  /\ FallbackPageSize \in 1..MaxPageSize

\* pageSize, of the setting n.
PageSize(n) == IF n \in 1..MaxPageSize THEN n ELSE FallbackPageSize

Least(m, n)    == IF m <= n THEN m ELSE n
Greatest(m, n) == IF m >= n THEN m ELSE n
Minus(m, n)    == IF m >= n THEN m - n ELSE 0

\* normalizePage: where the page of `start' begins, and the selection on it.
PageStart(start, count, page) ==
  IF count = 0 THEN 0 ELSE (Least(start, count - 1) \div page) * page
OnPage(selected, start, count, page) ==
  IF count = 0 THEN 0
  ELSE Least(Greatest(selected, start), Least(start + page, count) - 1)
=============================================================================

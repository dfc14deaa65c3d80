---------------------------- MODULE KeysetPages ----------------------------
(***************************************************************************)
(* Reading a set in pages by a keyset cursor, as both fan-out functions    *)
(* do: ORDER BY email, LIMIT n, WHERE email > the last address of the page *)
(* before.  Addresses are numbered in their order, 0 is "no cursor yet".   *)
(***************************************************************************)
EXTENDS Integers, FiniteSets

CONSTANT PageSize

ASSUME PageSizeAssumption == PageSize \in Nat \ {0}

Beyond(S, after) == {p \in S : p > after}

Fewer(a, b) == IF a < b THEN a ELSE b

(* The first PageSize members of S (all of a smaller S): there is one such *)
(* set, written as a choice so that nothing has to be sorted.              *)
FirstPages(S) ==
  {page \in SUBSET S :
     /\ Cardinality(page) = Fewer(PageSize, Cardinality(S))
     /\ \A p \in page, q \in S : q < p => q \in page}

(* max(email) of the page, or the old cursor when the page is empty.       *)
Cursors(page, after) == {c \in page \cup {after} : \A p \in page : p <= c}

(* remaining: the page came back full, so there may be more.               *)
Remaining(page) == Cardinality(page) = PageSize
=============================================================================

------------------------------ MODULE PagePool ------------------------------
(***************************************************************************)
(* What every page-granting component of the storage layer promises its    *)
(* clients, whatever data structure is behind it: a page is granted to at  *)
(* most one client at a time.  A grant is one page or a run of pages.      *)
(* holders[p] counts the clients that were given p and have not given it   *)
(* back; the promise is that a grant only takes pages nobody holds.        *)
(***************************************************************************)
EXTENDS Naturals

CONSTANT Pages          \* the data pages that can be granted

VARIABLE holders        \* [Pages -> Nat]

Nobody == [p \in Pages |-> 0]

Init == holders = Nobody

\* A client is given the pages of S, all of them unheld.
Grant(S) == /\ \A p \in S : holders[p] = 0
            /\ holders' = [p \in Pages |-> IF p \in S THEN 1 ELSE holders[p]]

\* A client gives back pages it was given.
Release(S) == /\ \A p \in S : holders[p] = 1
              /\ holders' = [p \in Pages |-> IF p \in S THEN 0 ELSE holders[p]]

\* The component is reset and forgets every grant.
Forget == holders' = Nobody

Next == \/ \E S \in SUBSET Pages : Grant(S) \/ Release(S)
        \/ Forget

Spec == Init /\ [][Next]_holders
=============================================================================

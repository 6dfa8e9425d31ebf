------------------------------ MODULE RunLedger ------------------------------
(***************************************************************************)
(* What the review portal promises about the rows of a run, with no queue  *)
(* positions, forms, files or error texts: a row waits for a decision, is  *)
(* decided once, and the deliverables are exactly the rows included, taken *)
(* when no row waits any more.                                             *)
(***************************************************************************)
CONSTANTS Run,      \* run identifiers
          Row,      \* rows, as records with a field "ref"
          None      \* no value

VARIABLES open,      \* open[r]: rows waiting for a decision
          included,  \* included[r]: rows that go into the deliverables
          dropped,   \* dropped[r]: references of the rows decided away
          released   \* released[r]: the rows delivered, or None

ledgerVars == <<open, included, dropped, released>>

Refs(rows) == {row.ref : row \in rows}

LedgerInit ==
  /\ open = [r \in Run |-> {}]
  /\ included = [r \in Run |-> {}]
  /\ dropped = [r \in Run |-> {}]
  /\ released = [r \in Run |-> None]

\* A run is entered with its waiting and its already included rows.
Enter(r) ==
  /\ open[r] = {} /\ included[r] = {} /\ dropped[r] = {} /\ released[r] = None
  /\ open' \in [Run -> SUBSET Row]
  /\ included' \in [Run -> SUBSET Row]
  /\ \A q \in Run \ {r} : open'[q] = open[q] /\ included'[q] = included[q]
  /\ Refs(open'[r]) \cap Refs(included'[r]) = {}
  /\ UNCHANGED <<dropped, released>>

\* A waiting row gets new values and keeps waiting.
Amend(r, row, new) ==
  /\ row \in open[r] /\ new.ref = row.ref
  /\ open' = [open EXCEPT ![r] = (@ \ {row}) \cup {new}]
  /\ UNCHANGED <<included, dropped, released>>

\* A waiting row is accepted, with the values of its decision.
Include(r, row, new) ==
  /\ row \in open[r] /\ new.ref = row.ref
  /\ open' = [open EXCEPT ![r] = @ \ {row}]
  /\ included' = [included EXCEPT ![r] = @ \cup {new}]
  /\ UNCHANGED <<dropped, released>>

\* A waiting row is decided away.
Drop(r, row) ==
  /\ row \in open[r]
  /\ open' = [open EXCEPT ![r] = @ \ {row}]
  /\ dropped' = [dropped EXCEPT ![r] = @ \cup {row.ref}]
  /\ UNCHANGED <<included, released>>

\* The deliverables are made; again and again they are the included rows.
Release(r) ==
  /\ open[r] = {}
  /\ released' = [released EXCEPT ![r] = included[r]]
  /\ UNCHANGED <<open, included, dropped>>

\* The process ends and takes every run with it.
Lose ==
  /\ open' = [r \in Run |-> {}]
  /\ included' = [r \in Run |-> {}]
  /\ dropped' = [r \in Run |-> {}]
  /\ released' = [r \in Run |-> None]

LedgerNext ==
  \/ Lose
  \/ \E r \in Run :
       \/ Enter(r)
       \/ Release(r)
       \/ \E row \in open[r] :
            \/ Drop(r, row)
            \/ \E new \in Row : Amend(r, row, new) \/ Include(r, row, new)

LedgerSpec == LedgerInit /\ [][LedgerNext]_ledgerVars
==============================================================================

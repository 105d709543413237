----------------------------- MODULE SavedList -----------------------------
(***************************************************************************)
(* What the command list promises to whoever configures the adapter, with  *)
(* pools, poll items and the single steps of loading left out: a list of   *)
(* rows with distinct keys that changes by one row at a time, or is        *)
(* emptied; saving keeps it, or, when that is cut short, a beginning of    *)
(* it; and every restart brings back what was saved last, nothing more and *)
(* nothing less, before the next change can be made.                       *)
(***************************************************************************)
EXTENDS Naturals, SequencesExt

CONSTANTS
  Rows,       \* what a list holds; each row has a key
  Capacity    \* the longest list

VARIABLES
  list,       \* the rows in use, or about to be
  saved,      \* the rows that are stored
  up          \* the adapter has started

vars == <<list, saved, up>>

Init == list = <<>> /\ saved = <<>> /\ up = FALSE

AddRow(row) ==
  /\ Len(list) < Capacity
  /\ \A i \in 1..Len(list) : list[i].key # row.key
  /\ list' = Append(list, row)

ReplaceRow(i, row) ==
  /\ list[i].key = row.key
  /\ list' = [list EXCEPT ![i] = row]

RemoveRow(i) == list' = RemoveAt(list, i)

Edit ==
  /\ up /\ UNCHANGED <<saved, up>>
  /\ \/ \E i \in 1..Len(list) : RemoveRow(i)
     \/ \E row \in Rows : AddRow(row) \/ \E i \in 1..Len(list) : ReplaceRow(i, row)

Clear ==
  /\ up /\ UNCHANGED up
  /\ list' = <<>>
  /\ saved' \in {saved, <<>>}

Save ==
  /\ up /\ list # <<>> /\ UNCHANGED <<list, up>>
  /\ \E n \in 0..Len(list) : saved' = SubSeq(list, 1, n)

(* A power failure or a restart of any other kind.                         *)
Restart ==
  /\ list' = saved /\ up' = FALSE
  /\ UNCHANGED saved

Started ==
  /\ ~up /\ up' = TRUE
  /\ UNCHANGED <<list, saved>>

Next == Edit \/ Clear \/ Save \/ Restart \/ Started

Spec == Init /\ [][Next]_vars
=============================================================================

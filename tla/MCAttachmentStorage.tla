------------------------ MODULE MCAttachmentStorage ------------------------
(***************************************************************************)
(* Instances of AttachmentStorage for TLC.  Files are model values.        *)
(***************************************************************************)
EXTENDS AttachmentStorage

\* Files are interchangeable, so one order of their local copies stands for the
\* others; with a liveness property this takes the place of a symmetry set.
CopyOrder == [none |-> 0, short |-> 1, whole |-> 2]
InOrder ==
  LET first == CHOOSE f \in Files : TRUE
  IN  \A f \in Files : CopyOrder[arrived[first]] <= CopyOrder[arrived[f]]

OrderedInit == Init /\ InOrder

OrderedSpec == OrderedInit /\ [][Next]_vars /\ Fairness
=============================================================================

-------------------------------- MODULE Dossier --------------------------------
(***************************************************************************)
(* What a case directory promises to its reader, without runners, solvers  *)
(* and locks: its pieces are of one call, and its pictures of one phase of *)
(* it; they grow only while there is no verdict; a verdict is about the    *)
(* pieces that lie there, a passed one about a complete set; with its      *)
(* checksums it stays until the whole directory has been emptied.          *)
(***************************************************************************)
CONSTANTS Pieces, Pictures, Marks, Blank

VARIABLES
    pieces,     \* each is blank or the mark of the phase that wrote it
    verdict     \* blank, or with call, total, engineering and sums

dossier == <<pieces, verdict>>

DossierInit ==
    /\ pieces = [a \in Pieces |-> Blank]
    /\ verdict = Blank

IsOf(a, v) ==
    pieces[a] # Blank => /\ pieces[a].call = v.call
                         /\ a \in Pictures => pieces[a].total = v.total

Complete == \A a \in Pieces : pieces[a] # Blank

Write(a, s) ==
    /\ verdict = Blank
    /\ \A b \in Pieces : IsOf(b, s)
    /\ pieces' = [pieces EXCEPT ![a] = s]
    /\ UNCHANGED verdict

\* The pictures of a phase that is to be continued.
Remove ==
    /\ verdict = Blank
    /\ pieces' = [a \in Pieces |-> IF a \in Pictures THEN Blank ELSE pieces[a]]
    /\ UNCHANGED verdict

Conclude ==
    /\ verdict = Blank /\ verdict' # Blank
    /\ \A a \in Pieces : IsOf(a, verdict')
    /\ verdict'.engineering => Complete
    /\ verdict'.sums = Blank
    /\ UNCHANGED pieces

Close ==
    /\ verdict # Blank /\ verdict.sums = Blank
    /\ verdict' = [verdict EXCEPT !.sums = pieces]
    /\ UNCHANGED pieces

\* The directory is emptied piece by piece, whatever its verdict.
Discard(a) ==
    /\ pieces' = [pieces EXCEPT ![a] = Blank]
    /\ UNCHANGED verdict

Withdraw ==
    /\ \A a \in Pieces : pieces[a] = Blank
    /\ verdict' = Blank
    /\ UNCHANGED pieces

DossierNext ==
    \/ \E a \in Pieces, s \in Marks : Write(a, s)
    \/ \E a \in Pieces : Discard(a)
    \/ Remove \/ Conclude \/ Close \/ Withdraw

DossierSpec == DossierInit /\ [][DossierNext]_dossier

=============================================================================

----------------------------- MODULE MCJournal -----------------------------
(* Instances of the journal for TLC. *)
EXTENDS JournalRecovery, TLC

(* Request identifiers are only compared for equality. *)
IdSymmetry == Permutations(RequestIds)

(* Bound of the run recovery: one file at most holds two events. *)
OneLongFile ==
    \A f, g \in Files :
        f < g => Len(content[f]) <= HeaderSize + EventSize(1)
                 \/ Len(content[g]) <= HeaderSize + EventSize(1)

(* Bound of the run compress: small events are saved in the first file, and *)
(* a large one, saved when both times below MaxTime are used, in the second: *)
(* they fill the journal, so that the next event needs a compression.        *)
LargeInSecond ==
    \A f \in Files : \A i \in DOMAIN content[f] :
        LET cell == content[f][i] IN
        cell.kind = "ev" => /\ (cell.size > EventSize(1)) = (f = 1)
                            /\ (cell.time = MaxTime) = (f = 1)

=============================================================================

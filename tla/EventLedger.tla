---------------------------- MODULE EventLedger ----------------------------
(***************************************************************************)
(* What the journal promises its clients (prinbee/journal/journal.h: "make *)
(* sure that the data does not get lost.  If the next system does not      *)
(* acknowledge receiving an event, the journal keeps it in its file until  *)
(* it does"): the set of events which will be offered for replay changes   *)
(* only because a client adds an event, moves one forward or ends one.     *)
(* The journal serves its clients or it does not, because it loads its     *)
(* files after a restart or a crash, or compresses them; what starts and   *)
(* ends such a period does not show in the events.                         *)
(***************************************************************************)

CONSTANTS RequestIds, Times

VARIABLES
    pending,    \* the events to replay: identifier, time and status
    serving     \* the journal answers to its clients

Statuses == {"READY", "FORWARDED", "ACKNOWLEDGED"}
Later == {<<"READY", "FORWARDED">>, <<"READY", "ACKNOWLEDGED">>,
          <<"FORWARDED", "ACKNOWLEDGED">>}

Init == pending = {} /\ ~serving

(* The journal may first compress its files: the event shows at the end. *)
Accept ==
    /\ serving'
    /\ \E id \in RequestIds, time \in Times :
           /\ \A e \in pending : e.id # id /\ e.time # time
           /\ pending' = pending \cup {[id |-> id, time |-> time, status |-> "READY"]}

MoveForward ==
    /\ serving /\ serving'
    /\ \E e \in pending, status \in Statuses :
           /\ <<e.status, status>> \in Later
           /\ pending' = (pending \ {e}) \cup {[e EXCEPT !.status = status]}

Finish ==
    /\ serving /\ serving'
    /\ \E e \in pending : pending' = pending \ {e}

(* A load or a compression starts or ends, or the process does. *)
StopOrStart == serving' = ~serving /\ UNCHANGED pending

Next == Accept \/ MoveForward \/ Finish \/ StopOrStart

Spec == Init /\ [][Next]_<<pending, serving>>

=============================================================================

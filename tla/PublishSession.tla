---------------------------- MODULE PublishSession ----------------------------
(***************************************************************************)
(* What publishing through the proxy promises its client: what it is told  *)
(* of an import is what became of the one that its own upload began.  When *)
(* it is told no more, it may try again; but an upload that it was told    *)
(* nothing of may arrive at any later time, before or after another has    *)
(* been taken, refused or reported, and begin an import that nobody follows.*)
(***************************************************************************)
EXTENDS Integers

VARIABLES
    import,  \* what Galaxy makes of the collection: the last import
    mine,    \* the import that the client's own upload began
    told,    \* what the client knows
    adrift   \* uploads it was told nothing of that may still arrive

vars == <<import, mine, told, adrift>>

Outcome == {"completed", "failed"}
Free == {"none", "failed"}  \* when Galaxy takes an upload

Init == import = "none" /\ mine = "none" /\ told = "nothing" /\ adrift = 0

Accept ==
    /\ told = "nothing" /\ mine = "none" /\ import \in Free
    /\ import' = "running" /\ mine' = "running" /\ UNCHANGED <<told, adrift>>

End ==
    /\ import = "running" /\ import' \in Outcome
    /\ mine' = IF mine = "running" THEN import' ELSE mine
    /\ UNCHANGED <<told, adrift>>

Report ==
    /\ told = "nothing" /\ mine \in Outcome
    /\ told' = mine /\ UNCHANGED <<import, mine, adrift>>

Refuse ==
    /\ told = "nothing" /\ mine = "none" /\ import \in Free
    /\ told' = "refused" /\ UNCHANGED <<import, mine, adrift>>

Conflict ==
    /\ told = "nothing" /\ mine = "none" /\ import \notin Free
    /\ told' = "conflict" /\ UNCHANGED <<import, mine, adrift>>

\* What becomes of an upload that has not been taken yet is open from then on.
GiveUp ==
    /\ told = "nothing" /\ told' = "unknown"
    /\ adrift' \in IF mine = "none" THEN {adrift, adrift + 1} ELSE {adrift}
    /\ UNCHANGED <<import, mine>>

TryAgain ==
    /\ told = "unknown" /\ told' = "nothing"
    /\ mine' = "none" /\ UNCHANGED <<import, adrift>>

\* An upload that was given up is taken after all, or refused.
Arrive ==
    /\ adrift > 0 /\ adrift' = adrift - 1
    /\ import' = import \/ (import \in Free /\ import' = "running")
    /\ UNCHANGED <<mine, told>>

Next ==
    \/ Accept \/ End \/ Report \/ Refuse \/ Conflict
    \/ GiveUp \/ TryAgain \/ Arrive

Spec == Init /\ [][Next]_vars
=============================================================================

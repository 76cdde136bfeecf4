---------------------------- MODULE RecallService ----------------------------
(***************************************************************************)
(* What transparent recall promises to the applications whose reads block *)
(* on a migrated file, with no receiver, pool, store or tape in sight:     *)
(*  - an application's access becomes a recall call;                       *)
(*  - a file only moves towards the disk: migrated, then premigrated,      *)
(*    then resident, never back;                                          *)
(*  - each call gets one reply; a successful reply is given only while the *)
(*    file is resident or at the state the call asked for.                 *)
(* Several calls may be replied to in one step (an execution answers its   *)
(* response list at once, cleanup answers every remaining job at once).    *)
(***************************************************************************)
EXTENDS Naturals, Sequences

CONSTANTS
    Files,      \* files that can be touched
    MaxEvents   \* bound on the number of calls

MIG == "MIGRATED"
PREMIG == "PREMIGRATED"
RES == "RESIDENT"

\* how far a file state is on its way back to disk
Rank(s) == CASE s = MIG -> 0 [] s = PREMIG -> 1 [] s = RES -> 2

VARIABLES
    fileState,  \* Files -> {MIG, PREMIG, RES}
    calls,      \* the recall calls made: [file, toresident]
    replies,    \* call index -> number of replies given
    granted     \* call indices replied to with success

svars == <<fileState, calls, replies, granted>>

CallIds == 1..MaxEvents

Wanted(c) == IF calls[c].toresident THEN RES ELSE PREMIG

Init ==
    /\ fileState \in [Files -> {MIG, PREMIG}]
    /\ calls = <<>>
    /\ replies = [c \in CallIds |-> 0]
    /\ granted = {}

\* an application blocks on a file that is not resident
Call(f, toresident) ==
    /\ Len(calls) < MaxEvents
    /\ fileState[f] # RES
    /\ calls' = Append(calls, [file |-> f, toresident |-> toresident])
    /\ UNCHANGED <<fileState, replies, granted>>

\* data is copied back, or the file's stub becomes its full content
Stage(f, s) ==
    /\ Rank(s) > Rank(fileState[f])
    /\ fileState' = [fileState EXCEPT ![f] = s]
    /\ UNCHANGED <<calls, replies, granted>>

\* the calls of C, none replied to yet, get their reply; those of ok with
\* success, which needs the file to be where the call wanted it
Reply(C, ok) ==
    /\ C # {}
    /\ \A c \in C : c <= Len(calls) /\ replies[c] = 0
    /\ \A c \in ok : fileState[calls[c].file] \in {RES, Wanted(c)}
    /\ replies' = [c \in CallIds |-> IF c \in C THEN 1 ELSE replies[c]]
    /\ granted' = granted \cup ok
    /\ UNCHANGED <<fileState, calls>>

Next ==
    \/ \E f \in Files, b \in BOOLEAN : Call(f, b)
    \/ \E f \in Files, s \in {PREMIG, RES} : Stage(f, s)
    \/ \E C \in SUBSET CallIds : \E ok \in SUBSET C : Reply(C, ok)

Spec == Init /\ [][Next]_svars

=============================================================================

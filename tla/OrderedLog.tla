----------------------------- MODULE OrderedLog -----------------------------
(***************************************************************************)
(* What the ingest side of EmbeddedLog promises, without producers, queue, *)
(* leader or locks: one writer handles the submitted sequences one by one, *)
(* in the order they were submitted, puts each into the log or refuses it, *)
(* and from time to time makes known how far it came.                      *)
(***************************************************************************)
EXTENDS Naturals, Sequences

VARIABLES
    submitted, \* sequences 1..submitted were given out
    handled,   \* sequences 1..handled were written or refused
    resolved,  \* producers of 1..resolved may return
    log,       \* sequences written, in order
    refused    \* sequences refused

vars == <<submitted, handled, resolved, log, refused>>

Init ==
    /\ submitted = 0
    /\ handled = 0
    /\ resolved = 0
    /\ log = <<>>
    /\ refused = {}

Submit ==
    /\ submitted' \in Nat
    /\ submitted' > submitted
    /\ UNCHANGED <<handled, resolved, log, refused>>

Handle ==
    /\ handled < submitted
    /\ handled' = handled + 1
    /\ \/ log' = Append(log, handled') /\ UNCHANGED refused
       \/ refused' = refused \union {handled'} /\ UNCHANGED log
    /\ UNCHANGED <<submitted, resolved>>

Resolve ==
    /\ resolved < handled
    /\ resolved' = handled
    /\ UNCHANGED <<submitted, handled, log, refused>>

Next == Submit \/ Handle \/ Resolve

Spec == Init /\ [][Next]_vars
=============================================================================

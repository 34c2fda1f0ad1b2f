---------------------------- MODULE HandlerList -----------------------------
(***************************************************************************)
(* What src/handler.c promises: a list of handlers, in the order in which  *)
(* they were registered.  Module Registry implements it.                   *)
(***************************************************************************)
EXTENDS Sequences, SequencesExt

CONSTANT Handler

VARIABLE list

Init == list = <<>>

Register(h) == h \notin Range(list) /\ list' = Append(list, h)

\* Taking off one that is not on the list changes nothing.
Unregister(h) == \E i \in 1 .. Len(list) : list[i] = h /\ list' = RemoveAt(list, i)

Next == \E h \in Handler : Register(h) \/ Unregister(h)

Spec == Init /\ [][Next]_list
=============================================================================

--------------------------- MODULE RegistryProps ----------------------------
(* What is required of the registry of handlers. *)
EXTENDS Registry, Sequences

\* The ring in the order of registration, from its head on, as p has it: that is
\* right even while a registration is under way.
Listed == Cardinality({k \in DOMAIN FromEnd : FromEnd[k] \in Handler})
Ring == [i \in 0 .. Listed |-> FromEnd[Listed - i]]
Registered == [i \in 1 .. Listed |-> Ring[i]]

Promise == INSTANCE HandlerList WITH list <- Registered

-----------------------------------------------------------------------------

\* Every variable keeps its type.
RegistryTypeOK ==
  /\ n \in [Node -> Node \cup {Nil}] /\ p \in [Node -> Node \cup {Nil}]
  /\ adding \in Handler \cup {Nil} /\ todo \subseteq {"reach", "end"}
  /\ at \in Node \cup {Idle, Nil} /\ goal \in Handler \cup {Unknown}
  /\ seen \subseteq Handler /\ since \subseteq Handler /\ changes \in 0 .. MaxChanges

\* c[0] is the head of the ring, and c[1] to c[m] are the handlers on it, the newest
\* last.  Until the stores of its registration are visible, what is in front of that
\* one leads past it, and it leads nowhere, or to itself when it was on the list
\* before.  Handlers that are not on the list have no links, or point at themselves.
RingInv(m, c) ==
  /\ m \in Nat /\ c \in [0 .. m -> Node] /\ c[0] = ListHead
  /\ \A i, j \in 0 .. m : c[i] = c[j] => i = j
  /\ p[ListHead] = c[m] /\ \A i \in 1 .. m : p[c[i]] = c[i - 1]
  /\ \A i \in 0 .. m - 1 : n[c[i]] = IF i = m - 1 /\ "reach" \in todo THEN ListHead ELSE c[i + 1]
  /\ n[c[m]] = ListHead \/ ("end" \in todo /\ n[c[m]] \in {Nil, c[m]})
  /\ IF adding = Nil THEN todo = {} ELSE m > 0 /\ adding = c[m]
  /\ \A x \in Handler : x \in {c[i] : i \in 1 .. m} \/ (n[x] = p[x] /\ n[x] \in {Nil, x})

\* The loop of handler_get is at a handler of the list, and of those that it has to
\* visit it has seen the ones in front.
WalkInv(m, c) ==
  /\ since \subseteq {c[i] : i \in 1 .. m} \ {adding}
  /\ at = ListHead => since \subseteq seen
  /\ at \in Handler =>
       \E j \in 1 .. m :
         at = c[j] /\ \A i \in 1 .. m : c[i] \in since => (c[i] \in seen <=> i < j)
  /\ "reach" \in todo => at # adding

\* What every step relies on.
RegistryInv(m, c) == RegistryTypeOK /\ RingInv(m, c) /\ WalkInv(m, c)

\* The list is whole.  With no registration under way n and p undo each other in
\* every node that was ever on it, so that a handler may be taken off it at any
\* time, and twice.
RingExact ==
  /\ RegistryInv(Listed, Ring)
  /\ adding = Nil => \A x \in Node : n[x] # Nil => p[n[x]] = x /\ n[p[x]] = x

\* handler_get misses no handler that was registered before it began and not taken
\* off since, and visits none of them twice, whatever is registered or taken off
\* between two steps of its loop.  (One that is taken off and registered anew may
\* hold the loop up until its registration is complete: it still points at itself.)
WalkComplete ==
  /\ at = ListHead => since \subseteq seen
  /\ at \in since => at \notin seen

\* A walk runs into NULL only while another thread is between two stores of a
\* registration, having made the handler reachable before it made it the last one.
\* A thread that registers in the body of its own loop cannot do that.
FaultOnlyInRace ==
  [][at' = Nil => adding # Nil /\ todo = {"end"}]_registryVars

\* A walk ends, at the handler it looks for, at the head, or at NULL.
WalkEnds == at # Idle ~> at \in {Idle, Nil}

\* Handlers are listed in the order of their registration.
ImplementsHandlerList == Promise!Spec
=============================================================================

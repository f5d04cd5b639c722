-------------------------------- MODULE SharedConfig --------------------------------
(***************************************************************************)
(* What changing a runtime configuration promises.  A configuration is the *)
(* set of its facts, <<key, inner key, value>>; a merge states some facts  *)
(* and leaves the others alone, a replacement leaves nothing else.  Each   *)
(* change falls on the configuration as it is at that moment, whole and at *)
(* once.                                                                   *)
(***************************************************************************)
EXTENDS Naturals

CONSTANTS Writers,  \* who changes the configuration
          Itself,   \* the inner key of a fact about the key itself
          AnObject  \* the value of a key that holds facts of its own

VARIABLES facts,    \* the configuration
          wanted,   \* wanted[w]: what w states, and whether nothing else is to stay
          changed   \* changed[w]: how often w's change was made

Holds(c, key)        == <<key, Itself, AnObject>> \in c
Mentions(c, key)     == \E f \in c : f[1] = key
States(c, key, name) == \E f \in c : f[1] = key /\ f[2] = name

\* What a merge of d leaves of c: the keys d does not mention, and inside an
\* object that d only adds to, what d does not state.
Stays(c, d) ==
  {f \in c : \/ ~Mentions(d, f[1])
             \/ Holds(c, f[1]) /\ Holds(d, f[1]) /\ ~States(d, f[1], f[2])}

Init == changed = [w \in Writers |-> 0]

Change(w) ==
  /\ facts' = wanted[w].states \cup (IF wanted[w].alone THEN {} ELSE Stays(facts, wanted[w].states))
  /\ changed' = [changed EXCEPT ![w] = @ + 1]
  /\ UNCHANGED wanted

Next == \E w \in Writers : Change(w)

Spec == Init /\ [][Next]_<<facts, wanted, changed>>
================================================================================

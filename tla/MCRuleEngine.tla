----------------------------- MODULE MCRuleEngine -----------------------------
\* An instance of RuleEngine: one built-in rule, of each judging kind in turn, and
\* two ids for the rules of people.
EXTENDS RuleEngine, FiniteSets

CONSTANTS r1, r2, builtin
MCUserIds == <<r1, r2>>
MCCatalogues == [{builtin} -> LevelKinds]

\* Instants so far without a line of their own time.
Odd == Cardinality({t \in 2..clock : ~Real(t)})

\* Bounds of a built-in rule alone: at most one odd instant if nobody asks anything,
\* and a fourth instant where the time that is looked back upon can have a hole.
NoPeopleRules == \A id \in UserIdSet : rules[id] = None /\ runtime[id] = None
Creating == call # None /\ call.step \in {"create", "add"}
Alone ==
    /\ NoPeopleRules /\ ~Creating
    /\ \/ asked = 0 /\ Odd <= 1 /\ (clock <= 4 \/ catalogue[builtin] = "sustained")
       \/ asked = 1 /\ Odd = 0 /\ clock <= 4

\* Bounds of people's rules, over two instants and next to a built-in level rule as it
\* ships: an odd instant with one call, a third call with doors only and whole copies.
ForPeople ==
    /\ catalogue[builtin] = "level" /\ rules[builtin] = None /\ clock <= 3
    /\ \/ asked <= 1 /\ Odd <= 1
       \/ asked = 2 /\ Odd = 0
       \/ asked = 3 /\ shown = clock /\ \A t \in 2..clock : log[t] = "enter"

Bounds == Alone \/ ForPeople
===============================================================================

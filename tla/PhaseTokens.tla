----------------------------- MODULE PhaseTokens -----------------------------
(***************************************************************************)
(* The phase tokens of stations (Phases and PhaseRef in segments.py).  A   *)
(* token does not refer to the Phases object that made it but records its  *)
(* id(), an address, so that the object may be collected while its tokens  *)
(* are in use, and another one may come to lie at its address.             *)
(***************************************************************************)
EXTENDS Integers

CONSTANTS PhaseNames,   \* names a station may declare
          Addresses,    \* where a Phases object may lie
          Nothing,      \* no object at an address
          MaxMade       \* bound: Phases objects ever made

VARIABLES
    inst,     \* inst[a]: the Phases object at a, its refs' _owner_id, and which it is
    tokens,   \* the PhaseRefs callers hold: name, _owner_id, and who made them
    made      \* objects made so far

tokenVars == <<inst, tokens, made>>

Alive == {a \in Addresses : inst[a] # Nothing}

TokensInit ==
    /\ inst = [a \in Addresses |-> Nothing]
    /\ tokens = {}
    /\ made = 0

Make(a, names, owner) ==
    /\ inst[a] = Nothing /\ made < MaxMade
    /\ made' = made + 1
    /\ inst' = [inst EXCEPT ![a] = [names |-> names, owner |-> owner, serial |-> made + 1]]
    /\ UNCHANGED tokens

\* phases(...): at least one name, and the refs are made at once
Declare(a, names) == names # {} /\ Make(a, names, a)

\* a copy by the copy module takes the refs along as they are
Copy(a, b) == a \in Alive /\ Make(b, inst[a].names, inst[a].owner)

\* the last reference to the object goes; the tokens stay
Collect(a) ==
    /\ a \in Alive
    /\ inst' = [inst EXCEPT ![a] = Nothing]
    /\ UNCHANGED <<tokens, made>>

\* an attribute or an item of the object
Ref(a, n) ==
    /\ a \in Alive /\ n \in inst[a].names
    /\ tokens' = tokens \cup {[name |-> n, owner |-> inst[a].owner, by |-> inst[a].serial]}
    /\ UNCHANGED <<inst, made>>

\* mutant: any token of a declared name is taken
RequireByName(a, t) == t.name \in inst[a].names

\* require lets the token pass: its _owner_id is the object's id() and its name
\* is declared
Require(a, t) == t.owner = a /\ t.name \in inst[a].names

\* where the bound ends a behaviour
AllMade == made = MaxMade /\ Alive = {} /\ UNCHANGED tokenVars

TokensNext ==
    \/ \E a \in Addresses :
          \/ \E names \in SUBSET PhaseNames : Declare(a, names)
          \/ \E b \in Addresses : Copy(a, b)
          \/ Collect(a)
          \/ \E n \in PhaseNames : Ref(a, n)
    \/ AllMade

-------------------------------------------------------------------------------

\* A token is good for the object that made it and for no other, even one that
\* declares the same names or is a copy, as long as that object is alive and is
\* no copy itself.  The token of a collected object may pass for one of the
\* object that came to lie at its address, and a copy refuses its own tokens.
TokensKeptApart ==
    \A t \in tokens, a \in Alive :
        inst[a].serial = t.by /\ inst[a].owner = a =>
            \A b \in Alive : Require(b, t) <=> b = a
===============================================================================

------------------------------- MODULE MCParts -------------------------------
(* The parts of the package that share no state with each other, for TLC:    *)
(* the schema sidecar (schema.py), the day partitions and the phase tokens   *)
(* (segments.py), the fold (compactor.py) and the assembly of transforms     *)
(* (transform.py).  part chooses one of them; the others stay in one of      *)
(* their initial states.                                                     *)
EXTENDS SchemaSidecar, DayPartitions, Fold, GraphAssembly, PhaseTokens, TLC

CONSTANTS f, g, h, n1, n2

VARIABLE part

\* datapackages of up to two fields
FieldLists == {<<f>>, <<g>>, <<f, g>>, <<f, h>>}

SampleYears == (2023..2025) \cup (2099..2101)

\* one key in the field id with stamps of both widths and with a tie, and one in
\* the field email, of a record that has no id and of one whose id is None
Record(id, email, version, body) ==
    [id |-> id, email |-> email, version |-> version, body |-> body]
SampleRecords ==
    {Record("a", Missing, Missing, 1), Record("a", Missing, 9, 1),
     Record("a", Missing, 9, 2), Record("a", Missing, 8, 1), Record("a", Missing, 10, 1),
     Record(Missing, "b", Null, 1), Record(Missing, "b", 7, 2), Record(Null, "b", 7, 3)}

\* a pipeline of two functions and a third, which cannot carry an attribute and
\* reads another declaration of the second station's name; the second function,
\* wired to that one, does not take its model
Raw    == [name |-> "raw", model |-> "Item"]
Done   == [name |-> "done", model |-> "Report"]
Done2  == [name |-> "done", model |-> "Item"]
SampleDecls   == {Raw, Done, Done2}
SampleWirings == {<<f, Raw, Done>>, <<g, Done, Raw>>, <<g, Done2, Raw>>, <<h, Done2, Raw>>}
SampleTakes   == f :> "Thing" @@ g :> "Report" @@ h :> "any"
SampleGives   == f :> "Report" @@ g :> "Item" @@ h :> "any"
SampleBelow   == {<<"Item", "Thing">>}

PartSymmetry == Permutations({n1, n2}) \cup Permutations(Writers)

PartsInit ==
    /\ part \in {"schema", "days", "fold", "graph", "phases"}
    /\ Init
    /\ DayInit /\ (part # "days" => today.y = 2023 /\ ttl = 1)
    /\ FoldInit
    /\ GraphInit
    /\ TokensInit

PartsNext ==
    /\ UNCHANGED part
    /\ \/ part = "schema" /\ Next       /\ UNCHANGED <<dayVars, foldVars, graphVars, tokenVars>>
       \/ part = "days"   /\ DayNext    /\ UNCHANGED <<vars, foldVars, graphVars, tokenVars>>
       \/ part = "fold"   /\ FoldNext   /\ UNCHANGED <<vars, dayVars, graphVars, tokenVars>>
       \/ part = "graph"  /\ GraphNext  /\ UNCHANGED <<vars, dayVars, foldVars, tokenVars>>
       \/ part = "phases" /\ TokensNext /\ UNCHANGED <<vars, dayVars, foldVars, graphVars>>

PartsSpec == PartsInit /\ [][PartsNext]_<<part, vars, dayVars, foldVars, graphVars, tokenVars>>
===============================================================================

-------------------------- MODULE SchemaSidecarProofs --------------------------
(***************************************************************************)
(* Proofs about SchemaSidecar for any set of writers and documents, any    *)
(* bound on the files and both backends.                                   *)
(***************************************************************************)
EXTENDS SchemaSidecar, TLAPS

\* A writer in its call has a document to write.
Active == \A w \in Writers : pc[w] # "idle" => call[w].doc \in Documents

\* There was a document before any active writer began, and none has force.
Held == base # NoText /\ ~forced

\* Then a document is there, it extends that base, no writer is creating the
\* file, and whoever is past the check has a document that extends the base.
Guarded ==
    Held =>
        /\ file.st = "full"
        /\ HoldingRule(base, text)
        /\ \A w \in Writers :
            /\ pc[w] \notin {"create", "writing"}
            /\ pc[w] # "idle" => ~call[w].force
            /\ pc[w] \in {"unprotect", "place", "replace"} =>
                   HoldingRule(base, call[w].doc)

IInv == TypeOK /\ Active /\ Guarded

-------------------------------------------------------------------------------

\* The holding rule is reflexive and transitive.
LEMMA RuleReflexive ==
    ASSUME NEW a \in Documents PROVE HoldingRule(a, a)
BY DocumentAssumption DEF HoldingRule

LEMMA RuleTransitive ==
    ASSUME NEW a \in Documents, NEW b \in Documents, NEW c \in Documents,
           HoldingRule(a, b), HoldingRule(b, c)
    PROVE  HoldingRule(a, c)
BY DocumentAssumption DEF HoldingRule

\* What the backend's operators make of a cell
LEMMA CellFacts ==
    /\ Absent \in Cell /\ Absent.st # "full"
    /\ \A t \in Nat : /\ Full(t) \in Cell /\ Full(t).st = "full"
                      /\ Empty(t) \in Cell /\ Empty(t).st # "full"
                      /\ Created(t) \in Cell
                      /\ Created(t).st = IF Local THEN "empty" ELSE "full"
BY DEF Absent, Full, Empty, Created, Cell

LEMMA FinishedFacts ==
    ASSUME NEW c \in Cell, NEW t \in Nat
    PROVE  /\ Finished(c, t) \in Cell
           /\ Finished(c, t).st = IF c = Empty(t) THEN "full" ELSE c.st
BY DEF Finished, Full, Empty, Cell

\* Moving on keeps the types; and either nobody is active afterwards and the
\* base is what is there, or the base is as it was.
LEMMA GotoFacts ==
    ASSUME TypeOK, text' \in Documents \cup {NoText},
           NEW w \in Writers, NEW l \in PCs, Goto(w, l)
    PROVE  /\ pc' = [pc EXCEPT ![w] = l] /\ pc' \in [Writers -> PCs]
           /\ base' \in Documents \cup {NoText} /\ forced' \in BOOLEAN
           /\ \/ base' = text' /\ ~forced' /\ \A v \in Writers : pc'[v] = "idle"
              \/ base' = base /\ forced' = forced
BY DEF TypeOK, Goto

\* A step that moves w to l preserves the guarantee if it does so for as long
\* as the base stays the same.
LEMMA GuardStep ==
    ASSUME IInv, TypeOK', NEW w \in Writers, NEW l \in PCs, Goto(w, l),
           \A v \in Writers : v # w => call'[v] = call[v],
           Held => /\ file'.st = "full"
                   /\ HoldingRule(base, text')
                   /\ l \notin {"create", "writing"}
                   /\ l # "idle" => ~call'[w].force
                   /\ l \in {"unprotect", "place", "replace"} =>
                          HoldingRule(base, call'[w].doc)
    PROVE  Guarded'
<1> SUFFICES ASSUME Held'
             PROVE  /\ file'.st = "full"
                    /\ HoldingRule(base', text')
                    /\ \A v \in Writers :
                        /\ pc'[v] \notin {"create", "writing"}
                        /\ pc'[v] # "idle" => ~call'[v].force
                        /\ pc'[v] \in {"unprotect", "place", "replace"} =>
                               HoldingRule(base', call'[v].doc)
  BY DEF Guarded
<1>0. text' \in Documents \cup {NoText} /\ (text' # NoText <=> file'.st = "full")
  BY DEF TypeOK
<1>1. /\ pc' = [pc EXCEPT ![w] = l] /\ pc \in [Writers -> PCs]
      /\ \/ base' = text' /\ ~forced' /\ \A v \in Writers : pc'[v] = "idle"
         \/ base' = base /\ forced' = forced
  BY <1>0, GotoFacts DEF IInv, TypeOK
<1>2. CASE base' = text' /\ \A v \in Writers : pc'[v] = "idle"
  BY <1>0, <1>2, RuleReflexive DEF Held
<1>3. CASE base' = base /\ forced' = forced
  <2>1. Held
    BY <1>3 DEF Held
  <2>2. ASSUME NEW v \in Writers
        PROVE  /\ pc'[v] \notin {"create", "writing"}
               /\ pc'[v] # "idle" => ~call'[v].force
               /\ pc'[v] \in {"unprotect", "place", "replace"} =>
                      HoldingRule(base', call'[v].doc)
    BY <1>1, <1>3, <2>1 DEF IInv, Guarded
  <2> QED
    BY <1>3, <2>1, <2>2
<1> QED
  BY <1>1, <1>2, <1>3

\* A step of w that leaves the file, the document and all calls as they are.
LEMMA QuietStep ==
    ASSUME IInv, NEW w \in Writers, pc[w] # "idle", NEW l \in PCs, Goto(w, l),
           UNCHANGED <<file, text, issued, call>>,
           mode' \in {"ro", "rw"}, exposed' \in BOOLEAN,
           Held => /\ l \notin {"create", "writing"}
                   /\ l \in {"unprotect", "place", "replace"} =>
                          HoldingRule(base, call[w].doc)
    PROVE  IInv'
<1>1. TypeOK /\ text' \in Documents \cup {NoText}
  BY DEF IInv, TypeOK
<1>2. TypeOK'
  BY <1>1, GotoFacts DEF TypeOK
<1>3. Active'
  BY <1>1, GotoFacts DEF IInv, Active, TypeOK
<1>4. Held => file'.st = "full" /\ HoldingRule(base, text') /\ ~call'[w].force
  BY DEF IInv, Guarded
<1>5. Guarded'
  BY <1>2, <1>4, GuardStep
<1> QED
  BY <1>2, <1>3, <1>5 DEF IInv

\* A step of w that puts a file there, creating only where there was no base.
LEMMA PutStep ==
    ASSUME IInv, NEW w \in Writers, pc[w] # "idle", NEW l \in PCs, Goto(w, l),
           NEW cell \in Cell, cell.st # "absent", PutFile(w, cell),
           call' \in [Writers -> Calls],
           \A v \in Writers : v # w => call'[v] = call[v],
           call'[w].doc = call[w].doc, call'[w].force = call[w].force,
           exposed' \in BOOLEAN,
           Held => pc[w] = "replace" /\ cell.st = "full",
           l \in {"idle", "protect", "writing"}, cell.st = "full" => l # "writing"
    PROVE  IInv'
<1>1. TypeOK /\ call[w].doc \in Documents
  BY DEF IInv, Active
<1>2. text' = IF cell.st = "full" THEN call[w].doc ELSE NoText
  BY DEF PutFile
<1>3. text' \in Documents \cup {NoText} /\ (text' # NoText <=> cell.st = "full")
  BY <1>1, <1>2, NoTextAssumption
<1>4. issued' \in 0..MaxTags /\ file' = cell /\ mode' = "rw"
  BY <1>1, BoundAssumption DEF PutFile, TypeOK
<1>5. TypeOK'
  BY <1>1, <1>3, <1>4, GotoFacts DEF TypeOK
<1>6. Active'
  BY <1>1, <1>3, GotoFacts DEF IInv, Active, TypeOK
<1>7. Held => file'.st = "full" /\ HoldingRule(base, text') /\ ~call'[w].force
  BY <1>2, <1>4 DEF IInv, Guarded
<1>8. Guarded'
  BY <1>5, <1>7, GuardStep
<1> QED
  BY <1>5, <1>6, <1>8 DEF IInv

-------------------------------------------------------------------------------

\* Every step preserves the invariant.
LEMMA StepInvariant ==
    ASSUME IInv, [Next]_vars
    PROVE  IInv'
<1> USE DEF IInv
<1>1. ASSUME NEW w \in Writers, Call(w) PROVE IInv'
  <2>1. PICK d \in Documents, force \in BOOLEAN, protect \in BOOLEAN :
          /\ call' = [call EXCEPT ![w] =
                [doc |-> d, force |-> force, protect |-> protect, tag |-> 0]]
          /\ pc' = [pc EXCEPT ![w] = "exists"]
          /\ forced' = (forced \/ force)
    BY <1>1 DEF Call
  <2>2. UNCHANGED <<file, text, mode, issued, base, exposed>>
    BY <1>1 DEF Call, fileVars
  <2>3. call' \in [Writers -> Calls]
    BY <2>1, BoundAssumption DEF TypeOK, Calls
  <2>4. pc' \in [Writers -> PCs] /\ forced' \in BOOLEAN
    BY <2>1 DEF TypeOK, PCs
  <2>5. TypeOK'
    BY <2>2, <2>3, <2>4 DEF TypeOK
  <2>6. Active'
    BY <2>1 DEF Active, TypeOK
  <2>7. Guarded'
    BY <2>1, <2>2 DEF Guarded, Held, TypeOK
  <2> QED
    BY <2>5, <2>6, <2>7
<1>2. ASSUME NEW w \in Writers, CheckExists(w) PROVE IInv'
  <2>1. PICK l \in {"read", "unprotect"} :
          Goto(w, l) /\ (l = "read" <=> Exists(file) /\ ~call[w].force)
    BY <1>2 DEF CheckExists
  <2>2. Held => l = "read"
    BY <1>2, <2>1 DEF CheckExists, Guarded, Exists
  <2> QED
    BY <1>2, <2>1, <2>2, QuietStep DEF CheckExists, fileVars, TypeOK, PCs
<1>3. ASSUME NEW w \in Writers, CheckHolding(w) PROVE IInv'
  <2>1. PICK l \in {"idle", "unprotect"} :
          Goto(w, l) /\ (l = "unprotect" => text = NoText \/ HoldingRule(text, call[w].doc))
    BY <1>3 DEF CheckHolding
  <2>2. Held /\ l = "unprotect" => HoldingRule(base, call[w].doc)
    <3> SUFFICES ASSUME Held, l = "unprotect" PROVE HoldingRule(base, call[w].doc)
      OBVIOUS
    <3>1. text # NoText /\ HoldingRule(base, text)
      BY DEF Guarded, TypeOK
    <3>2. base \in Documents /\ text \in Documents /\ call[w].doc \in Documents
      BY <1>3, <3>1 DEF CheckHolding, Held, TypeOK, Active
    <3> QED
      BY <2>1, <3>1, <3>2, RuleTransitive
  <2> QED
    BY <1>3, <2>1, <2>2, QuietStep DEF CheckHolding, fileVars, TypeOK, PCs
<1>4. ASSUME NEW w \in Writers, Unprotect(w) PROVE IInv'
  BY <1>4, QuietStep DEF Unprotect, Guarded, TypeOK, PCs
<1>5. ASSUME NEW w \in Writers, Choose(w) PROVE IInv'
  <2>1. PICK l \in {"replace", "create"} : Goto(w, l) /\ (Exists(file) => l = "replace")
    BY <1>5 DEF Choose
  <2>2. Held => l = "replace" /\ HoldingRule(base, call[w].doc)
    BY <1>5, <2>1 DEF Choose, Guarded, Exists
  <2> QED
    BY <1>5, <2>1, <2>2, QuietStep DEF Choose, fileVars, TypeOK, PCs
<1>6. ASSUME NEW w \in Writers, AfterWrite(w)
      PROVE  exposed' \in BOOLEAN /\ \E l \in {"idle", "protect"} : Goto(w, l)
  BY <1>6 DEF AfterWrite, Leave, TypeOK
<1>7. issued + 1 \in Nat
  BY BoundAssumption DEF TypeOK
<1>8. ASSUME NEW w \in Writers, Create(w) PROVE IInv'
  <2>0. ~Held
    BY <1>8 DEF Create, Guarded
  <2>1. CASE Exists(file)
    BY <1>8, <2>0, <2>1, QuietStep DEF Create, fileVars, TypeOK, PCs
  <2>2. CASE ~Exists(file)
    <3>1. PICK l \in {"idle", "protect", "writing"} :
            exposed' \in BOOLEAN /\ Goto(w, l) /\ (~Local => l # "writing")
      BY <1>6, <1>8, <2>2 DEF Create, TypeOK
    <3>2. /\ call' = [call EXCEPT ![w].tag = issued + 1]
          /\ PutFile(w, Created(issued + 1)) /\ pc[w] # "idle" /\ issued + 1 \in 0..MaxTags
      BY <1>7, <1>8, <2>2, BoundAssumption DEF Create, PutFile, TypeOK
    <3>3. /\ call' \in [Writers -> Calls]
          /\ \A v \in Writers : v # w => call'[v] = call[v]
          /\ call'[w].doc = call[w].doc /\ call'[w].force = call[w].force
      BY <3>2 DEF TypeOK, Calls
    <3>4. /\ Created(issued + 1) \in Cell /\ Created(issued + 1).st # "absent"
          /\ Created(issued + 1).st = "full" => ~Local
      BY <1>7, CellFacts
    <3> QED
      BY <2>0, <3>1, <3>2, <3>3, <3>4, PutStep DEF PCs
  <2> QED
    BY <2>1, <2>2
<1>9. ASSUME NEW w \in Writers, Write(w) PROVE IInv'
  <2>0. ~Held /\ pc[w] # "idle"
    BY <1>9 DEF Write, Guarded
  <2>1. call[w].tag \in Nat /\ call[w].doc \in Documents /\ file \in Cell
    BY <2>0, BoundAssumption DEF Active, TypeOK, Calls
  <2>2. /\ file' \in Cell /\ text' \in Documents \cup {NoText}
        /\ text' # NoText <=> file'.st = "full"
    BY <1>9, <2>1, FinishedFacts, NoTextAssumption DEF Write, TypeOK
  <2>3. PICK l \in {"idle", "protect"} : exposed' \in BOOLEAN /\ Goto(w, l)
    BY <1>6, <1>9 DEF Write
  <2>4. TypeOK'
    BY <1>9, <2>2, <2>3, GotoFacts DEF Write, TypeOK, PCs
  <2>5. Active'
    BY <1>9, <2>1, <2>2, <2>3, GotoFacts DEF Write, Active, TypeOK, PCs
  <2>6. Guarded'
    BY <1>9, <2>0, <2>3, <2>4, GuardStep DEF Write, PCs
  <2> QED
    BY <2>4, <2>5, <2>6
<1>10. ASSUME NEW w \in Writers, WriteFails(w) PROVE IInv'
  <2>0. ~Held
    BY <1>10 DEF WriteFails, Guarded
  <2>1. TypeOK'
    BY <1>10, CellFacts, GotoFacts DEF WriteFails, TypeOK, PCs
  <2>2. Active'
    BY <1>10, GotoFacts DEF WriteFails, Active, TypeOK, PCs
  <2>3. Guarded'
    BY <1>10, <2>0, <2>1, GuardStep DEF WriteFails, PCs
  <2> QED
    BY <2>1, <2>2, <2>3
<1>11. ASSUME NEW w \in Writers, Replace(w) PROVE IInv'
  <2>1. PICK l \in {"idle", "protect"} : exposed' \in BOOLEAN /\ Goto(w, l)
    BY <1>6, <1>11 DEF Replace
  <2>2. call' \in [Writers -> Calls]
    BY <1>11 DEF Replace, TypeOK
  <2>3. Full(issued + 1) \in Cell /\ Full(issued + 1).st = "full"
    BY <1>7, CellFacts
  <2> QED
    BY <1>11, <2>1, <2>2, <2>3, PutStep DEF Replace, PCs
<1>12. ASSUME NEW w \in Writers, Protect(w) PROVE IInv'
  BY <1>12, QuietStep DEF Protect, TypeOK, PCs
<1>13. ASSUME NEW w \in Writers, Crash(w) \/ WriteRaises(w) PROVE IInv'
  <2>1. /\ pc[w] # "idle" /\ Goto(w, "idle") /\ exposed' \in BOOLEAN
        /\ UNCHANGED <<file, text, issued, call, mode>>
    BY <1>13 DEF Crash, WriteRaises, Leave, fileVars, TypeOK
  <2> QED
    BY <2>1, QuietStep DEF TypeOK, PCs
<1>14. CASE UNCHANGED vars
  BY <1>14 DEF vars, TypeOK, Active, Guarded, Held
<1> QED
  BY <1>1, <1>2, <1>3, <1>4, <1>5, <1>8, <1>9, <1>10, <1>11, <1>12, <1>13, <1>14
     DEF Next, BoundReached

LEMMA Invariance == Spec => []IInv
<1>1. Init => IInv
  <2> SUFFICES ASSUME Init PROVE IInv
    OBVIOUS
  <2>0. call \in [Writers -> Calls]
    BY BoundAssumption DEF Init, Calls, NoCall
  <2>1. TypeOK
    <3>1. file \in Cell /\ file.st # "full" /\ text = NoText
      BY DEF Init, Absent, Cell
    <3>2. pc \in [Writers -> PCs] /\ issued \in 0..MaxTags
      BY BoundAssumption DEF Init, PCs
    <3>3. /\ mode \in {"ro", "rw"} /\ base \in Documents \cup {NoText}
          /\ forced \in BOOLEAN /\ exposed \in BOOLEAN
      BY DEF Init
    <3> QED
      BY <2>0, <3>1, <3>2, <3>3 DEF TypeOK
  <2>2. Active /\ Guarded
    BY DEF Init, Active, Guarded, Held
  <2> QED
    BY <2>1, <2>2 DEF IInv
<1>2. IInv /\ [Next]_vars => IInv'
  BY StepInvariant
<1> QED
  BY <1>1, <1>2, PTL DEF Spec

\* The sidecar, its document and its writers stay well typed: a document is
\* readable exactly when the file has its bytes.
THEOREM SidecarTyped == Spec => []TypeOK
<1>1. IInv => TypeOK
  BY DEF IInv
<1> QED
  BY <1>1, Invariance, PTL

\* However many writers of write_schema_sidecar overlap, crash or fail, none of
\* the fields that were there before any of them began is lost, moved or
\* retyped, unless one of them was called with force (decision 0003).
THEOREM FieldsKept == Spec => []BaseFieldsKept
<1>1. IInv => BaseFieldsKept
  <2> SUFFICES ASSUME IInv, base # NoText, ~forced
               PROVE  /\ text # NoText
                      /\ \A i \in 1..Len(base) : i <= Len(text) /\ text[i] = base[i]
    BY DEF BaseFieldsKept
  <2>1. file.st = "full" /\ HoldingRule(base, text)
    BY DEF IInv, Guarded, Held
  <2>2. text # NoText /\ text \in Documents /\ base \in Documents
    BY <2>1 DEF IInv, TypeOK
  <2> QED
    BY <2>1, <2>2, DocumentAssumption DEF HoldingRule
<1> QED
  BY <1>1, Invariance, PTL

-------------------------------------------------------------------------------
(* The protection at rest *)

\* An unprotected file has a writer that may restore the protection, or was
\* left so by one that is gone.
Protecting ==
    Local /\ Exists(file) /\ mode # "ro" => exposed \/ \E w \in Writers : pc[w] \in Late

\* The control point of w alone moves.
LEMMA MovesOnly ==
    ASSUME TypeOK, NEW w \in Writers, NEW l, Goto(w, l)
    PROVE  pc'[w] = l /\ \A v \in Writers \ {w} : pc'[v] = pc[v]
BY DEF TypeOK, Goto

\* A step after which w stands before the restoration, or has restored it, or
\* has left and taken note of the file it leaves.
LEMMA StillProtecting ==
    ASSUME TypeOK, TypeOK', Protecting, NEW w \in Writers,
           \/ \E l \in Late : Goto(w, l)
           \/ mode' = "ro"
           \/ ~Exists(file)'
           \/ pc[w] \notin Late /\ UNCHANGED <<file, mode, exposed>>
                /\ \A v \in Writers \ {w} : pc'[v] = pc[v]
           \/ Leave(w) /\ (pc[w] \notin Late => UNCHANGED <<file, mode>>)
    PROVE  Protecting'
<1>1. ASSUME NEW l, Goto(w, l) PROVE pc'[w] = l /\ \A v \in Writers \ {w} : pc'[v] = pc[v]
  BY <1>1, MovesOnly
<1>2. CASE \E l \in Late : Goto(w, l)
  BY <1>1, <1>2 DEF Protecting
<1>3. CASE mode' = "ro" \/ ~Exists(file)'
  BY <1>3 DEF Protecting
<1>4. CASE /\ pc[w] \notin Late /\ UNCHANGED <<file, mode, exposed>>
           /\ \A v \in Writers \ {w} : pc'[v] = pc[v]
  BY <1>4 DEF Protecting, Exists
<1>5. CASE Leave(w) /\ (pc[w] \notin Late => UNCHANGED <<file, mode>>)
  <2>1. \A v \in Writers \ {w} : pc'[v] = pc[v]
    BY <1>1, <1>5 DEF Leave
  <2>2. CASE pc[w] \in Late
    <3>1. Exists(file)' /\ mode' # "ro" => exposed'
      BY <1>5, <2>2 DEF Leave, TypeOK
    <3> QED
      BY <3>1 DEF Protecting
  <2>3. CASE pc[w] \notin Late
    <3>1. UNCHANGED <<file, mode>> /\ (exposed => exposed')
      BY <1>5, <2>3 DEF Leave
    <3> QED
      BY <2>1, <2>3, <3>1 DEF Protecting, Exists
  <2> QED
    BY <2>2, <2>3
<1> QED
  BY <1>2, <1>3, <1>4, <1>5

LEMMA ProtectingNext ==
    ASSUME TypeOK, TypeOK', Protecting, [Next]_vars
    PROVE  Protecting'
<1>1. ASSUME NEW w \in Writers, Call(w) PROVE Protecting'
  <2>1. pc[w] = "idle" /\ pc' = [pc EXCEPT ![w] = "exists"] /\ UNCHANGED <<file, mode, exposed>>
    BY <1>1 DEF Call, fileVars
  <2>2. pc[w] \notin Late /\ \A v \in Writers \ {w} : pc'[v] = pc[v]
    BY <2>1 DEF Late, TypeOK
  <2> QED
    BY <2>1, <2>2, StillProtecting
<1>2. ASSUME NEW w \in Writers, CheckExists(w) \/ CheckHolding(w) PROVE Protecting'
  <2>1. /\ UNCHANGED <<file, mode, exposed>> /\ pc[w] \notin Late
        /\ \E l : Goto(w, l)
    BY <1>2 DEF CheckExists, CheckHolding, fileVars, Late
  <2>2. \A v \in Writers \ {w} : pc'[v] = pc[v]
    BY <2>1, MovesOnly
  <2> QED
    BY <2>1, <2>2, StillProtecting
<1>3. ASSUME NEW w \in Writers, Unprotect(w) \/ Choose(w) PROVE Protecting'
  <2>1. \E l \in Late : Goto(w, l)
    BY <1>3 DEF Unprotect, Choose, Late
  <2> QED
    BY <2>1, StillProtecting
<1>4. ASSUME NEW w \in Writers, pc[w] \in Late, AfterWrite(w) PROVE Protecting'
  <2>1. (\E l \in Late : Goto(w, l)) \/ Leave(w)
    BY <1>4 DEF AfterWrite, Late
  <2> QED
    BY <1>4, <2>1, StillProtecting
<1>5. ASSUME NEW w \in Writers, Create(w) \/ Write(w) \/ Replace(w) PROVE Protecting'
  <2>1. pc[w] \in Late
    BY <1>5 DEF Create, Write, Replace, Late
  <2>2. AfterWrite(w) \/ \E l \in Late : Goto(w, l)
    BY <1>5 DEF Create, Write, Replace, Late
  <2> QED
    BY <1>4, <2>1, <2>2, StillProtecting
<1>6. ASSUME NEW w \in Writers, WriteFails(w) PROVE Protecting'
  <2>1. ~Exists(file)'
    BY <1>6 DEF WriteFails, Exists, Absent
  <2> QED
    BY <2>1, StillProtecting
<1>7. ASSUME NEW w \in Writers, Crash(w) \/ WriteRaises(w) PROVE Protecting'
  <2>1. Leave(w) /\ UNCHANGED <<file, mode>>
    BY <1>7 DEF Crash, WriteRaises, fileVars
  <2> QED
    BY <2>1, StillProtecting
<1>8. ASSUME NEW w \in Writers, Protect(w) PROVE Protecting'
  <2>1. CASE Local /\ Exists(file)
    BY <1>8, <2>1, StillProtecting DEF Protect
  <2>2. CASE ~(Local /\ Exists(file))
    BY <1>8, <2>2 DEF Protect, Protecting, Exists
  <2> QED
    BY <2>1, <2>2
<1>9. CASE UNCHANGED vars
  BY <1>9 DEF vars, Protecting, Exists
<1> QED
  BY <1>1, <1>2, <1>3, <1>5, <1>6, <1>7, <1>8, <1>9 DEF Next, BoundReached

\* When no writer is active a local sidecar is write-protected, or was left
\* unprotected by a call that died or raised past the lifting or was not to
\* protect, and by none that has protected it since: for any number of writers in
\* whatever order they lift, write and restore the protection.
THEOREM ProtectedAtRest == Spec => []RestsProtected
<1>1. Init => Protecting
  BY DEF Init, Protecting, Exists, Absent
<1>2. TypeOK /\ TypeOK' /\ Protecting /\ [Next]_vars => Protecting'
  BY ProtectingNext
<1>3. Protecting => RestsProtected
  BY DEF Protecting, RestsProtected, Late
<1> QED
  BY <1>1, <1>2, <1>3, SidecarTyped, PTL DEF Spec
===============================================================================

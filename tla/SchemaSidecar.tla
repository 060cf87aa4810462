---------------------------- MODULE SchemaSidecar ----------------------------
(***************************************************************************)
(* write_schema_sidecar (schema.py): writers of one datapackage.json, each *)
(* in the steps another process can see between: look for a sidecar, read  *)
(* it and hold the new document against it, lift the write protection,     *)
(* create or replace the file, protect it again.                           *)
(*                                                                         *)
(* A document is the sequence of its fields, a name and a type each; the   *)
(* rest of a datapackage is not compared by anything.  All writers are the *)
(* same principal (protect.py): no chmod is refused.                       *)
(***************************************************************************)
EXTENDS PathBackend, Sequences

CONSTANTS Writers,      \* callers of write_schema_sidecar
          Documents,    \* field lists they may write
          NoText,       \* no document
          MaxTags       \* bound: files ever written

ASSUME DocumentAssumption == \A d \in Documents : Len(d) \in Nat
ASSUME NoTextAssumption == NoText \notin Documents
ASSUME BoundAssumption == MaxTags \in Nat

VARIABLES
    file,       \* the cell at datapackage.json
    text,       \* the document in it, NoText if it has no bytes
    mode,       \* the permissions of the local file: "ro" (0444) or "rw"
    issued,     \* files written so far
    pc,         \* pc[w]: where writer w stands in its call
    call,       \* call[w]: what it was called with, and the tag of its file
    base,       \* ghost: the document of the last moment no writer was active
    forced,     \* ghost: a call with force = True has begun since then
    exposed     \* ghost: some call has left the file unprotected behind it, and
                \* none has protected it since

fileVars == <<file, text, mode, issued>>
vars == <<file, text, mode, issued, pc, call, base, forced, exposed>>

PCs == {"idle", "exists", "read", "unprotect", "place", "create", "writing",
        "replace", "protect"}

\* the places where a writer has lifted the protection and not restored it
Late == {"place", "create", "writing", "replace", "protect"}

Calls == [doc : Documents \cup {NoText}, force : BOOLEAN, protect : BOOLEAN, tag : 0..MaxTags]

NoCall == [doc |-> NoText, force |-> FALSE, protect |-> TRUE, tag |-> 0]

TypeOK ==
    /\ file \in Cell
    /\ text \in Documents \cup {NoText}
    /\ text # NoText <=> file.st = "full"
    /\ mode \in {"ro", "rw"}
    /\ issued \in 0..MaxTags
    /\ pc \in [Writers -> PCs]
    /\ call \in [Writers -> Calls]
    /\ base \in Documents \cup {NoText}
    /\ forced \in BOOLEAN /\ exposed \in BOOLEAN

Init ==
    /\ file = Absent
    /\ text = NoText
    /\ mode = "rw"
    /\ issued = 0
    /\ pc = [w \in Writers |-> "idle"]
    /\ call = [w \in Writers |-> NoCall]
    /\ base = NoText
    /\ forced = FALSE
    /\ exposed = FALSE

-------------------------------------------------------------------------------

\* mutant: the lengths are compared, the fields are not
LengthsOnly(old, new) == Len(new) >= Len(old)

\* check_holding_rule: the old fields lead the new document, as they are
HoldingRule(old, new) ==
    Len(new) >= Len(old) /\ \A i \in 1..Len(old) : new[i] = old[i]

\* w moves on to l; when that leaves nobody active, the document that is there
\* by then is the base of the calls to come
Goto(w, l) ==
    /\ pc' = [pc EXCEPT ![w] = l]
    /\ IF \A v \in Writers : pc'[v] = "idle"
       THEN base' = text' /\ forced' = FALSE
       ELSE UNCHANGED <<base, forced>>

\* w's call is over without a step that restores the protection
Leave(w) ==
    /\ exposed' = (exposed \/ (pc[w] \in Late /\ Exists(file)' /\ mode' = "rw"))
    /\ Goto(w, "idle")

\* what follows the write
AfterWrite(w) ==
    \/ call[w].protect /\ Goto(w, "protect") /\ UNCHANGED exposed
    \/ ~call[w].protect /\ Leave(w)

\* write_schema_sidecar is called
Call(w) ==
    /\ pc[w] = "idle"
    /\ \E d \in Documents, force, protect \in BOOLEAN :
        /\ call' = [call EXCEPT ![w] =
              [doc |-> d, force |-> force, protect |-> protect, tag |-> 0]]
        /\ pc' = [pc EXCEPT ![w] = "exists"]
        /\ forced' = (forced \/ force)
    /\ UNCHANGED <<fileVars, base, exposed>>

\* exists, asked also under force
CheckExists(w) ==
    /\ pc[w] = "exists"
    /\ UNCHANGED <<fileVars, call, exposed>>
    /\ Goto(w, IF Exists(file) /\ ~call[w].force THEN "read" ELSE "unprotect")

\* read and check: a document that breaks the rule raises; a file that cannot
\* be read or parsed, being gone or empty by now, is no obstacle
CheckHolding(w) ==
    /\ pc[w] = "read"
    /\ UNCHANGED <<fileVars, call, exposed>>
    /\ Goto(w, IF text # NoText /\ ~HoldingRule(text, call[w].doc)
               THEN "idle" ELSE "unprotect")

\* unprotect_for_write
Unprotect(w) ==
    /\ pc[w] = "unprotect"
    /\ mode' = "rw"
    /\ UNCHANGED <<file, text, issued, call, exposed>>
    /\ Goto(w, "place")

\* exists once more: create or replace?
Choose(w) ==
    /\ pc[w] = "place"
    /\ UNCHANGED <<fileVars, call, exposed>>
    /\ Goto(w, IF Exists(file) THEN "replace" ELSE "create")

\* mutant: a file has its document before it has its bytes
PutFileAtOnce(w, cell) ==
    /\ issued < MaxTags
    /\ issued' = issued + 1
    /\ file' = cell
    /\ text' = call[w].doc
    /\ mode' = "rw"

\* a new file, writable as both create_if_absent and a rename make it
PutFile(w, cell) ==
    /\ issued < MaxTags
    /\ issued' = issued + 1
    /\ file' = cell
    /\ text' = IF cell.st = "full" THEN call[w].doc ELSE NoText
    /\ mode' = "rw"

\* create_if_absent; a writer that lost the race replaces
Create(w) ==
    /\ pc[w] = "create"
    /\ \/ /\ ~Exists(file)
          /\ PutFile(w, Created(issued + 1))
          /\ call' = [call EXCEPT ![w].tag = issued + 1]
          /\ IF Local THEN Goto(w, "writing") /\ UNCHANGED exposed ELSE AfterWrite(w)
       \/ /\ Exists(file)
          /\ UNCHANGED <<fileVars, call, exposed>>
          /\ Goto(w, "replace")

\* the local create writes the bytes, if the file is still the one it opened
Write(w) ==
    /\ pc[w] = "writing"
    /\ file' = Finished(file, call[w].tag)
    /\ text' = IF file = Empty(call[w].tag) THEN call[w].doc ELSE text
    /\ UNCHANGED <<mode, issued, call>>
    /\ AfterWrite(w)

\* its write fails: unlink whatever file is there by now, and raise
WriteFails(w) ==
    /\ pc[w] = "writing"
    /\ file' = Absent
    /\ text' = NoText
    /\ exposed' = FALSE
    /\ UNCHANGED <<mode, issued, call>>
    /\ Goto(w, "idle")

\* write_atomic, over whatever document is there by now
Replace(w) ==
    /\ pc[w] = "replace"
    /\ PutFile(w, Full(issued + 1))
    /\ UNCHANGED call
    /\ AfterWrite(w)

\* create_if_absent or write_atomic raises before there is a new file, and the
\* call with it: what protects the file afterwards is not reached
WriteRaises(w) ==
    /\ pc[w] \in {"create", "replace"}
    /\ UNCHANGED <<fileVars, call>>
    /\ Leave(w)

\* mutant: protection is left to the next writer
ProtectForgotten(w) ==
    /\ pc[w] = "protect"
    /\ UNCHANGED <<fileVars, call, exposed>>
    /\ Goto(w, "idle")

\* protect_path, and the call returns; on S3 there is no local file
Protect(w) ==
    /\ pc[w] = "protect"
    /\ IF Local /\ Exists(file) THEN mode' = "ro" /\ exposed' = FALSE
                                ELSE UNCHANGED <<mode, exposed>>
    /\ UNCHANGED <<file, text, issued, call>>
    /\ Goto(w, "idle")

\* a writer dies in its call
Crash(w) ==
    /\ pc[w] # "idle"
    /\ UNCHANGED <<fileVars, call>>
    /\ Leave(w)

\* the bound allows no other file
BoundReached == issued = MaxTags /\ UNCHANGED vars

Next ==
    \/ \E w \in Writers :
        \/ Call(w) \/ CheckExists(w) \/ CheckHolding(w) \/ Unprotect(w) \/ Choose(w)
        \/ Create(w) \/ Write(w) \/ WriteFails(w) \/ Replace(w) \/ WriteRaises(w)
        \/ Protect(w) \/ Crash(w)
    \/ BoundReached

Spec == Init /\ [][Next]_vars

-------------------------------------------------------------------------------
(* Properties *)

\* Writers that overlap may drop each other's new fields, but never a field of
\* the document that was there before any of them began: each of them has held
\* its own against that document or an extension of it (decision 0003), unless
\* one was called with force.
BaseFieldsKept ==
    base # NoText /\ ~forced =>
        /\ text # NoText
        /\ \A i \in 1..Len(base) : i <= Len(text) /\ text[i] = base[i]

\* When no writer is active a local sidecar is write-protected, in whatever order
\* the last writers lifted, wrote and restored the protection, unless a call has
\* left it unprotected and none has protected it since: a call that died or whose
\* write raised after it had lifted the protection, or one with protect = False.
\* A call that is refused by the holding rule, or dies earlier, leaves no such
\* trace, and no call that returns after protect_path does.
RestsProtected ==
    Local /\ (\A w \in Writers : pc[w] = "idle") /\ Exists(file) /\ ~exposed => mode = "ro"
===============================================================================

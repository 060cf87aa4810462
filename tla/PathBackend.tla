----------------------------- MODULE PathBackend -----------------------------
(***************************************************************************)
(* One path of a PathBackend (protocols.py), over the two implementations  *)
(* the repository ships: LocalPathBackend (backends/local.py) and          *)
(* S3PathBackend (backends/s3.py).  A path holds a cell; the modules that  *)
(* extend this one keep their cells in variables and build their steps     *)
(* from the operators below, one step per primitive the code calls.        *)
(*                                                                         *)
(* A body is abstracted to its tag, a number that no two bodies written to *)
(* one path share: lease bodies differ in worker_id, claimed_at or         *)
(* expires_at, and CURRENT bodies in generation, compactor or time.  Both  *)
(* backends' etags are content hashes of the body, so the tag also stands  *)
(* for the etag.  Tag 0 is no body at all: the etag of an empty file.      *)
(***************************************************************************)
EXTENDS Integers

CONSTANT Backend        \* which implementation: "local" or "s3"

ASSUME BackendAssumption == Backend \in {"local", "s3"}

Local == Backend = "local"

Cell == [st : {"absent", "empty", "full"}, tag : Nat]

Absent   == [st |-> "absent", tag |-> 0]
\* a local file that create_if_absent has opened for tag t and not yet written
Empty(t) == [st |-> "empty", tag |-> t]
Full(t)  == [st |-> "full", tag |-> t]

Exists(c) == c.st # "absent"

\* the etag a reader of the cell computes; the file that is still empty hashes
\* to the etag of no bytes, whoever opened it
ETag(c) == IF c.st = "full" THEN c.tag ELSE 0

\* what create_if_absent leaves when it wins: on S3 the whole object in one
\* PUT, on a local disk a file that O_EXCL made and that has no bytes yet
Created(t) == IF Local THEN Empty(t) ELSE Full(t)

\* the creator's write reaches the path only while the path is still the file
\* it opened: after a delete or a rename-over the bytes go to a dropped inode
Finished(c, t) == IF c = Empty(t) THEN Full(t) ELSE c
==============================================================================

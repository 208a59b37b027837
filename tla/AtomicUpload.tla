----------------------------- MODULE AtomicUpload -----------------------------
(***************************************************************************)
(* What the callers of UploadDirectoryAsTarGz and UploadStream rely on: an *)
(* object is either not there or there as a whole, success is reported     *)
(* only once it is there, and the call reports one result.  A failure says *)
(* nothing about the object: the answer to the request that made it        *)
(* visible may be what was lost.                                           *)
(***************************************************************************)
VARIABLES object,  \* "absent", "whole" or "truncated"
          result   \* "none" until the call returns, then "ok" or "error"

vars == <<object, result>>

Init == object = "absent" /\ result = "none"

Store   == result = "none" /\ object = "absent" /\ object' = "whole" /\ UNCHANGED result
Succeed == result = "none" /\ object = "whole" /\ result' = "ok" /\ UNCHANGED object
Fail    == result = "none" /\ result' = "error" /\ UNCHANGED object

Next == Store \/ Succeed \/ Fail

Spec == Init /\ [][Next]_vars
=============================================================================

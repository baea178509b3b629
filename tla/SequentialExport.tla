-------------------------- MODULE SequentialExport --------------------------
(***************************************************************************)
(* What ExportRecords promises: the effect of a plain loop that takes the  *)
(* results of a plan one by one and replaces the file of each, and that    *)
(* returns after the last one.  The loop may be aborted between two steps. *)
(***************************************************************************)
EXTENDS Naturals, Sequences

CONSTANT NoFile  \* a path without a file

VARIABLES
  plan,    \* the results to write, in order: [path, content]
  count,   \* how many are dealt with
  stage,   \* of the current one: "next", "removed", "opened"
  files,   \* the location directory
  status   \* "running", "returned" or "aborted"

vars == <<plan, count, stage, files, status>>

Init == count = 0 /\ stage = "next" /\ status \in {"running", "returned"}
        /\ (status = "returned" => plan = <<>>)

Current == plan[count + 1]
Running == status = "running" /\ count < Len(plan)

Done == stage' = "next" /\ count' = count + 1

Opened(old) == IF old = NoFile THEN <<>> ELSE old

\* Each of the three may fail: the old file stays, the result is dropped, or only a
\* beginning of it is written.
Remove ==
  /\ Running /\ stage = "next"
  /\ stage' = "removed"
  /\ files' = [files EXCEPT ![Current.path] = NoFile] \/ files' = files
  /\ UNCHANGED <<plan, count, status>>

Open ==
  /\ Running /\ stage = "removed"
  /\ \/ /\ files' = [files EXCEPT ![Current.path] = Opened(@)]
        /\ stage' = "opened" /\ UNCHANGED count
     \/ files' = files /\ Done
  /\ UNCHANGED <<plan, status>>

Write ==
  /\ Running /\ stage = "opened"
  /\ \E n \in 0 .. Len(Current.content) :
       files' = [files EXCEPT ![Current.path] = Opened(@) \o SubSeq(Current.content, 1, n)]
  /\ Done
  /\ UNCHANGED <<plan, status>>

Return ==
  /\ status = "running" /\ count = Len(plan) /\ stage = "next"
  /\ status' = "returned"
  /\ UNCHANGED <<plan, count, stage, files>>

Abort ==
  /\ status = "running"
  /\ status' = "aborted"
  /\ UNCHANGED <<plan, count, stage, files>>

Next == Remove \/ Open \/ Write \/ Return \/ Abort

Spec == Init /\ [][Next]_vars
=============================================================================

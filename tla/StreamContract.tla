----------------------------- MODULE StreamContract -----------------------------
(***************************************************************************)
(* What the NTFS walker promises a parser about the reader it hands over:   *)
(* the bytes of the file in order and EOF after the last.                   *)
(***************************************************************************)
EXTENDS Integers, Sequences

VARIABLES content,   \* the file's bytes
          loss,      \* "none"; "end" (the reader may stop early); "any"
          out,       \* what was handed over
          done       \* "no", "eof" or "err"

Init == out = <<>> /\ done = "no"

More(s) == /\ Len(out) <= Len(s) /\ Len(s) <= Len(content)
           /\ loss # "any" => s = SubSeq(content, 1, Len(s))
Read == done = "no" /\ out' # out /\ More(out') /\ UNCHANGED done

\* The last bytes may come with EOF or with an error.
End == /\ done = "no" /\ (out' # out => More(out')) /\ done' \in {"eof", "err"}
       /\ (loss = "none" /\ done' = "eof") => out' = content

Next == (Read \/ End) /\ UNCHANGED <<content, loss>>
Spec == Init /\ [][Next]_<<content, loss, out, done>>
=============================================================================

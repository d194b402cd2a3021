----------------------------- MODULE MCLogBundle -----------------------------
(* Small namespaces for LogBundle. *)
EXTENDS LogBundle

Log(b, shape) == [base |-> b, form |-> "log", shape |-> shape]
Gz(b, shape) == [base |-> b, form |-> "gz", shape |-> shape]

\* Nothing; a log in rotation, whose .gz is cut off or complete; files that are
\* not what they seem, or too large.
Anything ==
  {{},
   {Log(1, "text"), Gz(1, "short"), Gz(2, "packed")},
   {Log(1, "text"), Gz(1, "packed"), Gz(2, "big")},
   {Log(2, "huge"), Log(1, "text"), Gz(1, "junk")}}
=============================================================================

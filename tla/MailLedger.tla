------------------------------ MODULE MailLedger ------------------------------
(***************************************************************************)
(* What the log of notification e-mails promises, whatever databases and   *)
(* reconcilers lie behind it: an entry is written once, as queued or as    *)
(* skipped; a skipped mail is never taken by the mail service, another at  *)
(* most once; a queued entry is settled once, and as "sent" only when the  *)
(* service had taken it (schema/044 and 049 together).                     *)
(***************************************************************************)
EXTENDS Naturals, Sequences

VARIABLES verdict, \* the sequence of entries
          taken    \* those of them the mail service has taken

vars == <<verdict, taken>>

Init == verdict = << >> /\ taken = {}

Write(v) ==
    /\ verdict' = Append(verdict, v)
    /\ UNCHANGED taken

Take(m) ==
    /\ m \in DOMAIN verdict \ taken
    /\ verdict[m] # "skipped"
    /\ taken' = taken \cup {m}
    /\ UNCHANGED verdict

\* Several at once: the reconciler goes over the whole log.
Settle ==
    /\ DOMAIN verdict' = DOMAIN verdict
    /\ \A m \in DOMAIN verdict :
          \/ verdict'[m] = verdict[m]
          \/ /\ verdict[m] = "queued"
             /\ verdict'[m] \in {"sent", "failed", "unverified"}
             /\ verdict'[m] = "sent" => m \in taken
    /\ UNCHANGED taken

Next ==
    \/ \E v \in {"queued", "skipped"} : Write(v)
    \/ \E m \in DOMAIN verdict : Take(m)
    \/ Settle

Spec == Init /\ [][Next]_vars

=============================================================================

--------------------------- MODULE MCCustomDomains ---------------------------
EXTENDS CustomDomains

CONSTANTS Former, FormerRow   \* the account that held a hostname before, and its row

(***************************************************************************)
(* The hostname had a claim before: an account that never got a Cloudflare *)
(* id for it and has since been deleted.  The next claim on it is held for *)
(* review until support approves it.                                       *)
(***************************************************************************)
ReclaimInit ==
    \E h \in Hostnames :
        /\ dom = [d \in Domains |-> IF d # FormerRow THEN NoRow
                                   ELSE [NoRow EXCEPT !.owner = Former, !.host = h, !.state = "retired"]]
        /\ profile \in [Owners -> [exists : BOOLEAN, eligible : BOOLEAN, default : {None}]]
        /\ \A o \in Owners : /\ profile[o].exists = (o # Former)
                             /\ o = Former => ~profile[o].eligible
        /\ cf = [c \in Certs |-> [host |-> None, held |-> FALSE]]
        /\ task = [t \in Tasks |-> Idle]
        /\ recorded = [d \in Domains |-> "none"]

ReclaimSpec == ReclaimInit /\ [][Next]_vars /\ SweepFairness
=============================================================================

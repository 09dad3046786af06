------------------------------- MODULE MCGates -------------------------------
EXTENDS Gates, Alerts, TLC

\* Two readers of different companies; everybody, one address, or that address
\* and the other's company; a password that is set and kept; an expiry.
MCDomain == ("ann" :> "a.com") @@ ("ben" :> "b.com")
MCForm(password, mail, emails, domains, expires, lock) ==
    [password |-> password, mail |-> mail, list |-> [emails |-> emails, domains |-> domains],
     expires |-> expires, lock |-> lock]
MCForms == {MCForm("none", TRUE, {}, {}, None, FALSE),
            MCForm("new", FALSE, {}, {}, 1, FALSE),
            MCForm("keep", TRUE, {"ann"}, {"b.com"}, None, TRUE),
            MCForm("none", TRUE, {"ann"}, {}, 1, FALSE)}

\* A behaviour takes one of these sets of routes; with none it is about the
\* alerts of a closed link, which answer nobody and are no part of a request.
MCMixes == {{"auth", "frame"}, {"email", "frame"}, {"auth", "email", "file"}, {"email", "open", "print"},
            {"confirm", "optout", "frame", "report"}, {"preview", "open"}, {}}

LinkInit ==
    /\ Init /\ AlertsInit
    /\ IF routes = {} THEN share.password = 1 /\ ~share.custom
       ELSE ~link.revoked /\ ~link.custom /\ link.expires = Never

LinkNext ==
    \/ routes # {} /\ Next /\ UNCHANGED alertVars
    \/ routes = {} /\ AlertsNext /\ UNCHANGED vars

LinkSpec == LinkInit /\ [][LinkNext]_<<vars, alertVars>>

\* Calls are alike, and so are the owner's windows.
MCSymmetry == Permutations(Calls) \cup Permutations(Tabs)
=============================================================================
